---- MODULE Spec2Model ----
(***************************************************************************)
(* A model of DHTExporter (src/dhtexporter.py).                            *)
(*                                                                         *)
(* The repository has two halves that share one document model:            *)
(*   - the Python exporter: main / generate_messages_ndjson /              *)
(*     process_message, a thread pool that flattens message rows into      *)
(*     records (specifications SpecExport and SpecRerun);                  *)
(*   - the embedded JavaScript viewer: state.mjs (the document store and   *)
(*     query engine, specification Spec), its channel hierarchy            *)
(*     (SpecHierarchy) and processor.mjs (the snowflake sorter,            *)
(*     SpecSorter).                                                        *)
(*                                                                         *)
(* Each specification drives its own variables and leaves the others at    *)
(* their initial values.                                                   *)
(***************************************************************************)
EXTENDS Integers, Sequences, FiniteSets, TLC

VARIABLES
    \* ---- exporter (Python) ----
    messages_table,   \* rows of the messages table of the source store
    num_threads,      \* args.threads
    dump_json,        \* args.dump_json
    pc,               \* position of main()
    all_messages,     \* cursor.fetchall() of generate_messages_ndjson
    work_queue,       \* ThreadPoolExecutor._work_queue (FIFO of task indices)
    futures,          \* the futures executor.map created, by task index
    workers,          \* per worker thread: 0 = idle, i = running task i
    fs,               \* executor.map's list of futures not yet collected
    results,          \* the records the generator has yielded so far
    files,            \* archive files written by main()
    completed,        \* history: task indices in the order they finished
    prev_run,         \* history: outcome of the previous run on this store
    store_fault,      \* the read of the source store that fails, "none" for a sound store
    metadata,         \* << sections >> once fetch_metadata has returned
    connection,       \* thread_local.connection by slot, << >> where the attribute is not set
    opened_count,     \* history: the sqlite3.connect calls of get_db_connection, by thread
    conn_uses,        \* history: the connections each thread ran a query on
    closed_conns,     \* the connections on which close() has been called
    \* ---- viewer: state.mjs ----
    loadedFileMeta,   \* the metadata document, or undefined / null
    loadedFileData,   \* messages by channel, then by id, or undefined / null
    loadedMessages,   \* the filtered, sorted ids of the selected channel
    filterFunction,   \* the active filter predicate, or undefined / null
    selectedChannel,
    currentPage,
    messagesPerPage,
    hasActiveFilter,  \* root.hasActiveFilter
    ret,              \* the last call on the store: operation, result, exception
    refreshes,        \* the trigger...Refreshed calls the last call made, in order
    jump,             \* gui.mjs: the data-jump id of a click whose handler is running
    load_accepted,    \* history: some uploadFile call has returned normally
    \* ---- viewer: generateChannelHierarchy / generateChannelOrder ----
    channel_parent,   \* loadedFileMeta.channels[id].parent, by channel number
    hierarchy,        \* the Map parent id -> Set of child ids
    unreachableIds,   \* the Set of parent ids not reached from the root yet
    call_stack,       \* the active calls of reachIds
    hpc,              \* position in generateChannelOrder
    orderArray,       \* getSortedSubTree("")
    \* ---- viewer: processor.mjs SORTER ----
    keyA, keyB, keyC, \* message id strings
    compared,         \* << oldestToNewest(keyA, keyB) >> once compared
    sortedKeys,       \* << [keyA, keyB, keyC].sort(oldestToNewest) >> once sorted
    \* ---- exporter: process_message on one row ----
    enrich_row,       \* message_data, << >> while there is none
    enriched,         \* << message_obj >> once process_message has built it
    \* ---- viewer: getSortedSubTree sorting one sibling group ----
    channel_position, \* loadedFileMeta.channels[id].position, by channel number
    sibling_group,    \* Array.from(children), in the insertion order of the Set
    sibling_sorted,   \* << the array after sort(comparator) >> once sorted
    \* ---- viewer: discord.mjs rendering one message ----
    settings,         \* settings_default: the enable* switches
    contents,         \* the argument of processMessageContents, a list of tokens
    processed,        \* the local "processed" of processMessageContents
    stages,           \* history: the replacements applied so far, in order
    render_message,   \* << message >>: a record of getMessageList, << >> while none
    rendered,         \* << what getMessageHTML put in each template slot >>
    \* ---- the generated page: main() writes it, loadData reads it ----
    page_rows,        \* the rows of the messages table that are exported
    messages_ndjson,  \* << the lines main() joins >> once they are generated
    final_html,       \* << the lines between the viewer-messages tags as written >>
    rawNdjson,        \* << the lines loadData splits the element's text into >>
    messages,         \* loadData's "messages": the entries stored so far
    load_pc           \* position of main() and then of loadData

conn_vars == <<connection, opened_count, conn_uses, closed_conns>>

export_vars == <<messages_table, num_threads, dump_json, pc, all_messages,
                 work_queue, futures, workers, fs, results, files, completed,
                 prev_run, store_fault, metadata, conn_vars>>

state_vars == <<loadedFileMeta, loadedFileData, loadedMessages, filterFunction,
                selectedChannel, currentPage, messagesPerPage, hasActiveFilter>>

viewer_vars == <<state_vars, ret, refreshes, jump, load_accepted>>

hierarchy_vars == <<channel_parent, hierarchy, unreachableIds, call_stack, hpc, orderArray>>

sorter_vars == <<keyA, keyB, keyC, compared, sortedKeys>>

enrich_vars == <<enrich_row, enriched>>

sibling_vars == <<channel_position, sibling_group, sibling_sorted>>

render_vars == <<settings, contents, processed, stages, render_message, rendered>>

page_vars == <<page_rows, messages_ndjson, final_html, rawNdjson, messages, load_pc>>

vars == <<export_vars, viewer_vars, hierarchy_vars, sorter_vars, enrich_vars, sibling_vars,
          render_vars, page_vars>>

-----------------------------------------------------------------------------
(***************************************************************************)
(* Bounds of the model.                                                    *)
(***************************************************************************)
MaxMsgs == 3        \* message rows in the source store
MaxThreads == 2     \* largest --threads value explored
MaxChanMsgs == 4    \* messages in the largest channel of the loaded archive
MaxPageSize == 3    \* largest "messages per page" option explored
MaxChannels == 3    \* channels of the metadata whose hierarchy is resolved
MaxIdLen == 3       \* longest id string compared by the sorter
MaxTextLen == 4     \* tokens in the longest message text that is formatted

-----------------------------------------------------------------------------
(***************************************************************************)
(* JavaScript values of the viewer.  A value is a record [k, v]: k is the  *)
(* kind and v the payload (0 where the kind has none).                     *)
(***************************************************************************)
Undef == [k |-> "undef", v |-> 0]
Null == [k |-> "null", v |-> 0]
NaN == [k |-> "nan", v |-> 0]
Infinity == [k |-> "inf", v |-> 0]
Num(n) == [k |-> "num", v |-> n]
StrVal(x) == [k |-> "str", v |-> x]
Obj(x) == [k |-> "obj", v |-> x]
List(l) == [k |-> "list", v |-> l]


\* state.mjs as constructed: every "let" of the module is undefined, and
\* root.hasActiveFilter is false.
ViewerIdle ==
    /\ loadedFileMeta = Undef
    /\ loadedFileData = Undef
    /\ loadedMessages = Undef
    /\ filterFunction = Undef
    /\ selectedChannel = Undef
    /\ currentPage = Undef
    /\ messagesPerPage = Undef
    /\ hasActiveFilter = FALSE
    /\ ret = [op |-> "none", val |-> Undef, exc |-> "none"]
    /\ refreshes = << >>
    /\ jump = << >>
    /\ load_accepted = FALSE

\* The hierarchy resolver and the sorter before they are used
HierarchyIdle ==
    /\ channel_parent = << >>
    /\ hierarchy = [keys |-> << >>, kids |-> << >>]
    /\ unreachableIds = << >>
    /\ call_stack = << >>
    /\ hpc = "build"
    /\ orderArray = << >>

SorterIdle ==
    /\ keyA = << >>
    /\ keyB = << >>
    /\ keyC = << >>
    /\ compared = << >>
    /\ sortedKeys = << >>

EnrichIdle ==
    /\ enrich_row = << >>
    /\ enriched = << >>

\* No sibling group is being sorted.  The metadata gives channel 1 position
\* 0, channel 2 position 1, and every third channel no position.
SiblingsIdle ==
    /\ channel_position = [n \in 1..MaxChannels |-> IF n % 3 = 0 THEN Undef ELSE Num(n - 1)]
    /\ sibling_group = << >>
    /\ sibling_sorted = << >>

\* Nothing is being rendered; every setting has its default, true.
RenderIdle ==
    /\ settings = [enableImagePreviews |-> TRUE, enableFormatting |-> TRUE,
                   enableUserAvatars |-> TRUE, enableAnimatedEmoji |-> TRUE]
    /\ contents = << >>
    /\ processed = << >>
    /\ stages = << >>
    /\ render_message = << >>
    /\ rendered = << >>

\* No page is being written or read
PageIdle ==
    /\ page_rows = << >>
    /\ messages_ndjson = << >>
    /\ final_html = << >>
    /\ rawNdjson = << >>
    /\ messages = << >>
    /\ load_pc = "idle"

-----------------------------------------------------------------------------
(***************************************************************************)
(* Python values.  Optional[X] of a point lookup (cursor.fetchone()) is    *)
(* <<>> for None and <<x>> for a row; the list lookups return None in      *)
(* place of an empty list, and None is the empty sequence here (both are   *)
(* falsy, and the callers only test truthiness).                           *)
(***************************************************************************)
None == <<>>
TruthyInt(v) == v # 0      \* a NULL or zero integer column is falsy

(***************************************************************************)
(* The source store.  Message ids are 1..MaxMsgs; the satellite relations  *)
(* are fixed tables keyed by message id.  Timestamps are not monotone in   *)
(* the id, so ORDER BY timestamp is not ORDER BY message_id.               *)
(***************************************************************************)
MsgIds == 1..MaxMsgs

RowTimestamp(id) == 1000 - 10 * id
RowText(id) == CASE id % 3 = 1 -> "hello"
                 [] id % 3 = 2 -> ""
                 [] OTHER      -> "None"     \* SQL NULL
RowSender(id) == 100 + (id % 2)
RowChannel(id) == 200 + (id % 2)

\* The satellite relations of a message are independent of its text and of
\* each other: each is read off its own digit of the message id, so that
\* the ids 0 .. RowShapes - 1 go through every combination.
AttachmentShape(id) == (id \div 3) % 5
EmbedShape(id) == (id \div 15) % 2
EditShape(id) == (id \div 30) % 3
ReactionShape(id) == (id \div 90) % 2
ReplyShape(id) == (id \div 180) % 2
RowShapes == 3 * 5 * 2 * 3 * 2 * 2

\* message_attachments JOIN attachments: (name, download_url, width, height),
\* a NULL width or height being 0
AttachmentRows(id) ==
    CASE AttachmentShape(id) = 1 ->
            << [name |-> "a.png", url |-> "u/a.png", width |-> 4, height |-> 3],
               [name |-> "b.bin", url |-> "u/b.bin", width |-> 0, height |-> 0] >>
      [] AttachmentShape(id) = 2 ->
            << [name |-> "c.png", url |-> "u/c.png", width |-> 4, height |-> 0] >>
      [] AttachmentShape(id) = 3 ->
            << [name |-> "d.png", url |-> "u/d.png", width |-> 0, height |-> 3] >>
      [] AttachmentShape(id) = 4 ->
            << [name |-> "e.bin", url |-> "u/e.bin", width |-> 0, height |-> 0] >>
      [] OTHER -> << >>
EmbedRows(id) == IF EmbedShape(id) = 1 THEN << "{embed}" >> ELSE << >>
\* message_edit_timestamps.edit_timestamp: no row, a time, or 0
EditTimestampRow(id) ==
    CASE EditShape(id) = 1 -> << 5000 + id >>
      [] EditShape(id) = 2 -> << 0 >>
      [] OTHER             -> << >>
ReactionRows(id) ==
    IF ReactionShape(id) = 1
    THEN << [emoji_id |-> 0, emoji_name |-> "ok", emoji_flags |-> 0, count |-> 2],
            [emoji_id |-> 77, emoji_name |-> "party", emoji_flags |-> 1, count |-> 1] >>
    ELSE << >>
RepliedToRow(id) == IF ReplyShape(id) = 1 THEN << id + 1 >> ELSE << >>

\* str(x) of an integer id: kept as a tagged value, distinct from the integer
Str(x) == <<"str", x>>

-----------------------------------------------------------------------------
(***************************************************************************)
(* MessageEnricher: the five point lookups and process_message.            *)
(***************************************************************************)
get_message_attachments_EachAlone(message_id) ==
    LET rows == AttachmentRows(message_id)
        attachment(r) ==
            [f \in {"url", "name"} \cup (IF TruthyInt(r.width) THEN {"width"} ELSE {})
                                   \cup (IF TruthyInt(r.height) THEN {"height"} ELSE {}) |->
                CASE f = "url" -> r.url [] f = "name" -> r.name
                  [] f = "width" -> r.width [] f = "height" -> r.height]
    IN  [i \in 1..Len(rows) |-> attachment(rows[i])]
get_message_attachments(message_id) ==
    LET rows == AttachmentRows(message_id)
        attachment(r) ==
            IF TruthyInt(r.width) /\ TruthyInt(r.height)
            THEN [url |-> r.url, name |-> r.name, width |-> r.width, height |-> r.height]
            ELSE [url |-> r.url, name |-> r.name]
    IN  [i \in 1..Len(rows) |-> attachment(rows[i])]

get_message_edit_timestamp(message_id) ==
    LET result == EditTimestampRow(message_id)
    IN  IF result # None THEN << result[1] >> ELSE None

get_message_embeds_Placeholder(message_id) ==
    IF EmbedRows(message_id) = << >> THEN << "null" >> ELSE EmbedRows(message_id)
get_message_embeds(message_id) == EmbedRows(message_id)

get_message_reactions(message_id) ==
    LET rows == ReactionRows(message_id)
        reaction(r) ==
            IF TruthyInt(r.emoji_id)
            THEN [n |-> r.emoji_name, a |-> TruthyInt(r.emoji_flags), c |-> r.count,
                  id |-> Str(r.emoji_id)]
            ELSE [n |-> r.emoji_name, a |-> TruthyInt(r.emoji_flags), c |-> r.count]
    IN  [i \in 1..Len(rows) |-> reaction(rows[i])]

get_message_reply(message_id) ==
    LET result == RepliedToRow(message_id)
    IN  IF result # None THEN << Str(result[1]) >> ELSE None

should_include_message_text_Always(text, attachments, embeds) == TRUE
should_include_message_text(text, attachments, embeds) ==
    IF text # "None" /\ text # ""
    THEN TRUE
    ELSE IF attachments # None \/ embeds # None
         THEN FALSE
         ELSE TRUE

\* The record json.dumps serialises: a function from the field names that
\* are present to their values.
process_message(row) ==
    LET message_id_str == Str(row.message_id)
        attachments == get_message_attachments(row.message_id)
        embeds == get_message_embeds(row.message_id)
        edit_timestamp == get_message_edit_timestamp(row.message_id)
        reactions == get_message_reactions(row.message_id)
        reply_to == get_message_reply(row.message_id)
        present ==
            {"id", "c", "u", "t"}
            \cup (IF should_include_message_text(row.text, attachments, embeds)
                  THEN {"m"} ELSE {})
            \cup (IF attachments # None THEN {"a"} ELSE {})
            \cup (IF embeds # None THEN {"e"} ELSE {})
            \cup (IF edit_timestamp # None /\ TruthyInt(edit_timestamp[1]) THEN {"te"} ELSE {})
            \cup (IF reactions # None THEN {"re"} ELSE {})
            \cup (IF reply_to # None THEN {"r"} ELSE {})
    IN  [f \in present |->
            CASE f = "id" -> message_id_str
              [] f = "c"  -> Str(row.channel_id)
              [] f = "u"  -> Str(row.sender_id)
              [] f = "t"  -> row.timestamp
              [] f = "m"  -> IF row.text = "None" THEN "" ELSE row.text
              [] f = "a"  -> attachments
              [] f = "e"  -> embeds
              [] f = "te" -> edit_timestamp[1]
              [] f = "re" -> reactions
              [] f = "r"  -> reply_to[1] ]

\* json.dumps raises TypeError on a row whose text column holds a BLOB
\* (bytes): the malformed rows of the store.
EnrichmentFails(row) == row.malformed

-----------------------------------------------------------------------------
(***************************************************************************)
(* RelationalReader: SELECT ... FROM messages ORDER BY timestamp.          *)
(***************************************************************************)
RECURSIVE OrderByTimestamp(_)
OrderByTimestamp(rows) ==
    IF rows = {} THEN << >>
    ELSE LET first == CHOOSE r \in rows : \A q \in rows : r.timestamp <= q.timestamp
         IN  << first >> \o OrderByTimestamp(rows \ {first})

MessageRow(id, malformed) ==
    [message_id |-> id, sender_id |-> RowSender(id), channel_id |-> RowChannel(id),
     text |-> RowText(id), timestamp |-> RowTimestamp(id), malformed |-> malformed]

-----------------------------------------------------------------------------
(***************************************************************************)
(* ParallelPipeline: generate_messages_ndjson and main.                    *)
(*                                                                         *)
(* executor.map submits one task per row, in order, and keeps the futures  *)
(* in the list fs; its result iterator pops them from the front and        *)
(* yields future.result().  A future is PENDING, RUNNING, FINISHED (with   *)
(* its record), EXCEPTION or CANCELLED.                                    *)
(***************************************************************************)
NoRun == [ran |-> FALSE, pc |-> "", results |-> << >>, threads |-> 0, completed |-> << >>]

TaskCount == Len(all_messages)

\* messages_with_progress[i]: the row of task i (idx and total only feed
\* the progress line)
messages_with_progress(i) == all_messages[i]

Future(state, result) == [state |-> state, result |-> result]

IsDone(i) == futures[i].state \in {"FINISHED", "EXCEPTION"}

\* The future the result iterator collects next: fs.pop() after
\* fs.reverse(), i.e. the oldest future not yet collected.
NextToYield_NoReverse == fs[Len(fs)]
NextToYield_AsCompleted ==
    IF \E k \in DOMAIN fs : IsDone(fs[k])
    THEN fs[CHOOSE k \in DOMAIN fs : IsDone(fs[k]) /\ \A j \in DOMAIN fs : IsDone(fs[j]) => j <= k]
    ELSE fs[1]
NextToYield == fs[1]

\* future.result() re-raises the exception of a failed task.
GatherRaises_Swallowed(i) == FALSE
GatherRaises(i) == futures[i].state = "EXCEPTION"

\* The threads of a run: the main thread and the pool's workers
MainThread == 0

Threads(threads) == {MainThread} \cup (1..threads)

\* threading.local(): every thread has its own attribute "connection"
ThreadLocalSlot_Global(thread) == MainThread
ThreadLocalSlot(thread) == thread

\* hasattr(thread_local, "connection")
HasConnection(thread) == connection[ThreadLocalSlot(thread)] # << >>

\* A connection is named by the thread that opened it and a serial number.
\* get_db_connection called by thread: thread_local.connection and the
\* count of connections opened, after the call
Connected(thread) ==
    IF HasConnection(thread) THEN connection
    ELSE [connection EXCEPT ![ThreadLocalSlot(thread)] = << thread, opened_count[thread] + 1 >>]

ConnectCounted(thread) ==
    IF HasConnection(thread) THEN opened_count
    ELSE [opened_count EXCEPT ![thread] = @ + 1]

\* the thread runs a query on the connection get_db_connection returned
Used(thread, conn) == [conn_uses EXCEPT ![thread] = @ \cup {conn}]

\* The reads of the source store that can fail: the counts of print_counts,
\* the three queries of fetch_metadata, the query of generate_messages_ndjson
StoreFaults == {"none", "counts", "users", "servers", "channels", "messages"}

MetadataSections == << "users", "servers", "channels" >>

\* the sections filled before the query that fails
RECURSIVE SectionsBefore(_, _)
SectionsBefore(fault, sections) ==
    IF sections = << >> \/ Head(sections) = fault THEN {}
    ELSE {Head(sections)} \cup SectionsBefore(fault, Tail(sections))

\* fetch_metadata: the exception of a failing query leaves the function
fetch_metadata_Partial(fault) ==
    [raised |-> FALSE, metadata |-> << SectionsBefore(fault, MetadataSections) >>]
fetch_metadata(fault) ==
    IF \E i \in DOMAIN MetadataSections : MetadataSections[i] = fault
    THEN [raised |-> TRUE, metadata |-> << >>]
    ELSE [raised |-> FALSE, metadata |-> << SectionsBefore(fault, MetadataSections) >>]

ExportStart(threads) ==
    /\ num_threads = threads
    /\ pc = "print_counts"
    /\ metadata = << >>
    /\ connection = [t \in Threads(threads) |-> << >>]
    /\ opened_count = [t \in Threads(threads) |-> 0]
    /\ conn_uses = [t \in Threads(threads) |-> {}]
    /\ closed_conns = {}
    /\ all_messages = << >>
    /\ work_queue = << >>
    /\ futures = << >>
    /\ workers = [w \in 1..threads |-> 0]
    /\ fs = << >>
    /\ results = << >>
    /\ completed = << >>

ExportInit ==
    /\ ViewerIdle
    /\ HierarchyIdle
    /\ SorterIdle
    /\ EnrichIdle
    /\ SiblingsIdle
    /\ RenderIdle
    /\ PageIdle
    /\ \E present \in SUBSET MsgIds : \E bad \in SUBSET present :
           messages_table = { MessageRow(id, id \in bad) : id \in present }
    /\ dump_json \in BOOLEAN
    /\ \E threads \in 1..MaxThreads : ExportStart(threads)
    /\ store_fault \in StoreFaults
    /\ files = {}
    /\ prev_run = NoRun

\* main: print_counts opens the store and counts three tables
PrintCounts ==
    /\ pc = "print_counts"
    /\ pc' = IF store_fault = "counts" THEN "failed" ELSE "fetch_metadata"
    /\ UNCHANGED <<messages_table, num_threads, dump_json, all_messages, work_queue,
                   futures, workers, fs, results, files, completed, prev_run,
                   store_fault, metadata, conn_vars>>

\* main: os.makedirs, then fetch_metadata on the main thread's connection
FetchMetadata ==
    /\ pc = "fetch_metadata"
    /\ connection' = Connected(MainThread)
    /\ opened_count' = ConnectCounted(MainThread)
    /\ conn_uses' = Used(MainThread, connection'[ThreadLocalSlot(MainThread)])
    /\ IF fetch_metadata(store_fault).raised
       THEN pc' = "failed" /\ UNCHANGED metadata
       ELSE pc' = "start" /\ metadata' = fetch_metadata(store_fault).metadata
    /\ UNCHANGED <<messages_table, num_threads, dump_json, all_messages, work_queue,
                   futures, workers, fs, results, files, completed, prev_run,
                   store_fault, closed_conns>>

\* main up to the first next() on the generator: the ordered query, then
\* executor.map submits every task.
Submit ==
    /\ pc = "start"
    /\ IF store_fault = "messages"
       THEN /\ pc' = "failed"
            /\ UNCHANGED <<all_messages, futures, work_queue, fs>>
       ELSE /\ all_messages' = OrderByTimestamp(messages_table)
            /\ futures' = [i \in 1..Cardinality(messages_table) |-> Future("PENDING", None)]
            /\ work_queue' = [i \in 1..Cardinality(messages_table) |-> i]
            /\ fs' = [i \in 1..Cardinality(messages_table) |-> i]
            /\ pc' = "gather"
    /\ UNCHANGED <<messages_table, num_threads, dump_json, workers, results, files,
                   completed, prev_run, store_fault, metadata, conn_vars>>

\* A pool thread takes the next work item; a cancelled item is dropped.
\* Otherwise the thread enters process_message, whose first lookup calls
\* get_db_connection and queries the connection it returns.
WorkerTake(w) ==
    /\ pc \in {"gather", "failing"}
    /\ workers[w] = 0
    /\ work_queue # << >>
    /\ LET i == Head(work_queue)
       IN  IF futures[i].state = "CANCELLED"
           THEN UNCHANGED <<futures, workers, connection, opened_count, conn_uses>>
           ELSE /\ futures' = [futures EXCEPT ![i] = Future("RUNNING", None)]
                /\ workers' = [workers EXCEPT ![w] = i]
                /\ connection' = Connected(w)
                /\ opened_count' = ConnectCounted(w)
                /\ conn_uses' = Used(w, connection'[ThreadLocalSlot(w)])
    /\ work_queue' = Tail(work_queue)
    /\ UNCHANGED <<messages_table, num_threads, dump_json, pc, all_messages, fs, results,
                   files, completed, prev_run, store_fault, metadata, closed_conns>>

\* The thread returns from process_message (or it raised), after the other
\* lookups have queried the connection get_db_connection returned to them.
WorkerFinish(w) ==
    /\ workers[w] # 0
    /\ LET i == workers[w]
           row == messages_with_progress(i)
       IN  /\ futures' = [futures EXCEPT ![i] =
                            IF EnrichmentFails(row)
                            THEN Future("EXCEPTION", None)
                            ELSE Future("FINISHED", << process_message(row) >>)]
           /\ completed' = Append(completed, i)
    /\ workers' = [workers EXCEPT ![w] = 0]
    /\ conn_uses' = Used(w, connection[ThreadLocalSlot(w)])
    /\ UNCHANGED <<messages_table, num_threads, dump_json, pc, all_messages, work_queue,
                   fs, results, files, prev_run, store_fault, metadata, connection,
                   opened_count, closed_conns>>

\* for result in executor.map(...): yield result
Yield ==
    /\ pc = "gather"
    /\ fs # << >>
    /\ LET i == NextToYield
       IN  /\ futures[i].state \in {"FINISHED", "EXCEPTION"}
           /\ ~GatherRaises(i)
           /\ results' = results \o
                  (IF futures[i].state = "FINISHED" THEN futures[i].result ELSE << "null" >>)
           /\ fs' = SelectSeq(fs, LAMBDA j : j # i)
    /\ UNCHANGED <<messages_table, num_threads, dump_json, pc, all_messages, work_queue,
                   futures, workers, files, completed, prev_run, store_fault, metadata, conn_vars>>

\* future.result() raises: the iterator's finally cancels the futures
\* still in fs, and the with block waits for the pool (shutdown(wait=True)).
GatherRaise ==
    /\ pc = "gather"
    /\ fs # << >>
    /\ futures[NextToYield].state = "EXCEPTION"
    /\ GatherRaises(NextToYield)
    /\ futures' = [i \in DOMAIN futures |->
                      IF futures[i].state = "PENDING" /\ \E k \in DOMAIN fs : fs[k] = i
                      THEN Future("CANCELLED", None) ELSE futures[i]]
    /\ pc' = "failing"
    /\ UNCHANGED <<messages_table, num_threads, dump_json, all_messages, work_queue,
                   workers, fs, results, files, completed, prev_run, store_fault, metadata, conn_vars>>

\* The pool has drained; the exception leaves main.
Abort ==
    /\ pc = "failing"
    /\ work_queue = << >>
    /\ \A w \in DOMAIN workers : workers[w] = 0
    /\ pc' = "failed"
    /\ UNCHANGED <<messages_table, num_threads, dump_json, all_messages, work_queue,
                   futures, workers, fs, results, files, completed, prev_run, store_fault, metadata, conn_vars>>

\* close_db_connections called by thread: the connection of the calling
\* thread is closed and its attribute deleted
close_db_connections(thread) ==
    [connection |-> [connection EXCEPT ![ThreadLocalSlot(thread)] = << >>],
     closed |-> IF HasConnection(thread)
                THEN closed_conns \cup { connection[ThreadLocalSlot(thread)] }
                ELSE closed_conns]

\* The generator is exhausted: the with block has joined the pool, the
\* generator calls close_db_connections() and "\n".join(...) returns.
GatherDone ==
    /\ pc = "gather"
    /\ fs = << >>
    /\ connection' = close_db_connections(MainThread).connection
    /\ closed_conns' = close_db_connections(MainThread).closed
    /\ pc' = IF dump_json THEN "write_metadata" ELSE "write_html"
    /\ UNCHANGED <<messages_table, num_threads, dump_json, all_messages, work_queue,
                   futures, workers, fs, results, files, completed, prev_run, store_fault,
                   metadata, opened_count, conn_uses>>

WriteFile(at, name, next) ==
    /\ pc = at
    /\ files' = files \cup {name}
    /\ pc' = next
    /\ UNCHANGED <<messages_table, num_threads, dump_json, all_messages, work_queue,
                   futures, workers, fs, results, completed, prev_run, store_fault, metadata, conn_vars>>

WriteMetadata == WriteFile("write_metadata", "get-viewer-metadata.json", "write_messages")
WriteMessages == WriteFile("write_messages", "get-viewer-messages.ndjson", "write_html")
WriteHtml == WriteFile("write_html", "html", "done")

\* The exporter is started again on the same store, with any thread count.
Rerun ==
    /\ pc \in {"done", "failed"}
    /\ prev_run = NoRun
    /\ prev_run' = [ran |-> TRUE, pc |-> pc, results |-> results,
                    threads |-> num_threads, completed |-> completed]
    /\ \E threads \in 1..MaxThreads :
          /\ num_threads' = threads
          /\ workers' = [w \in 1..threads |-> 0]
          /\ connection' = [t \in Threads(threads) |-> << >>]
          /\ opened_count' = [t \in Threads(threads) |-> 0]
          /\ conn_uses' = [t \in Threads(threads) |-> {}]
    /\ closed_conns' = {}
    /\ metadata' = << >>
    /\ pc' = "print_counts"
    /\ all_messages' = << >>
    /\ work_queue' = << >>
    /\ futures' = << >>
    /\ fs' = << >>
    /\ results' = << >>
    /\ completed' = << >>
    /\ UNCHANGED <<messages_table, dump_json, files, store_fault>>

ExportNext ==
    \/ PrintCounts
    \/ FetchMetadata
    \/ Submit
    \/ \E w \in DOMAIN workers : WorkerTake(w)
    \/ \E w \in DOMAIN workers : WorkerFinish(w)
    \/ Yield
    \/ GatherRaise
    \/ Abort
    \/ GatherDone
    \/ WriteMetadata
    \/ WriteMessages
    \/ WriteHtml

SpecExport ==
    ExportInit /\ [][ExportNext /\ UNCHANGED <<viewer_vars, hierarchy_vars, sorter_vars, enrich_vars, sibling_vars, render_vars, page_vars>>]_vars

SpecRerun ==
    ExportInit
    /\ [][(ExportNext \/ Rerun) /\ UNCHANGED <<viewer_vars, hierarchy_vars, sorter_vars, enrich_vars, sibling_vars, render_vars, page_vars>>]_vars

-----------------------------------------------------------------------------
(***************************************************************************)
(* Properties of the exporter.                                             *)
(***************************************************************************)
Writing == {"write_metadata", "write_messages", "write_html", "done"}

\* C1: generate_messages_ndjson emits the records in input order whatever
\* the workers do: at every moment the i-th record yielded is the
\* enrichment of the i-th row of the timestamp-ordered query result (so the
\* stream is ascending in timestamp), and once the generator is exhausted
\* there is exactly one record per row of the messages table.
C1_OutputOrderIsInputOrder ==
    /\ Len(results) <= TaskCount
    /\ \A i \in 1..Len(results) : results[i] = process_message(all_messages[i])
    /\ \A i, j \in 1..Len(results) : i < j => results[i]["t"] <= results[j]["t"]
    /\ pc \in Writing =>
          /\ Len(results) = Cardinality(messages_table)
          /\ { results[i]["id"] : i \in 1..Len(results) }
                 = { Str(r.message_id) : r \in messages_table }

\* A finished run of at least two workers in which a later task completed
\* before an earlier one.
C1_Witness ==
    /\ pc = "done"
    /\ num_threads >= 2
    /\ Len(results) >= 2
    /\ \E k \in 1..(Len(completed) - 1) : completed[k] > completed[k + 1]

\* C2: a second run over the same store, with any worker count and any
\* scheduling, ends the same way as the first and yields the same stream of
\* records.
C2_RunsProduceSameStream ==
    (prev_run.ran /\ pc \in {"done", "failed"}) =>
        /\ pc = prev_run.pc
        /\ results = prev_run.results

\* Two finished runs with different worker counts and different completion
\* orders.
C2_Witness ==
    /\ prev_run.ran
    /\ pc = "done"
    /\ prev_run.threads # num_threads
    /\ prev_run.completed # completed
    /\ Len(results) >= 2

\* C3: the run is all-or-nothing.  An archive file exists only when every
\* task finished without an exception and every record was gathered; a run
\* over a store with a malformed row never reaches the writes, and a failed
\* run has written nothing.
C3_AllOrNothing ==
    /\ files # {} =>
          /\ pc \in Writing
          /\ Len(results) = TaskCount
          /\ \A i \in DOMAIN futures : futures[i].state = "FINISHED"
    /\ pc \in {"failing", "failed"} => files = {}
    /\ (\E r \in messages_table : EnrichmentFails(r)) => pc \notin Writing

\* A failed run that had already gathered a record, with a later task
\* finished successfully, and no file written.
C3_Witness ==
    /\ pc = "failed"
    /\ Len(results) >= 1
    /\ \E i \in DOMAIN futures : i > Len(results) + 1 /\ futures[i].state = "FINISHED"
    /\ files = {}

-----------------------------------------------------------------------------
(***************************************************************************)
(* JavaScript operators on those values.                                   *)
(***************************************************************************)
JsTypeof(x) ==
    CASE x.k \in {"obj", "null", "list"} -> "object"
      [] x.k \in {"num", "nan", "inf"}   -> "number"
      [] x.k = "str"                     -> "string"
      [] OTHER                           -> "undefined"

\* x != null (loose): false for null and for undefined
JsNotNullish(x) == x.k \notin {"undef", "null"}

\* ToBoolean
JsTruthy(x) ==
    CASE x.k \in {"undef", "null", "nan"} -> FALSE
      [] x.k = "num"                      -> x.v # 0
      [] x.k = "str"                      -> x.v # << >>
      [] OTHER                            -> TRUE

\* ToNumber of a number or undefined
JsToNumber(x) == IF x.k = "undef" THEN NaN ELSE x

JsOr(a, b) == IF JsTruthy(a) THEN a ELSE b

JsAdd(a, b) ==
    LET x == JsToNumber(a)
        y == JsToNumber(b)
    IN  CASE x.k = "nan" \/ y.k = "nan" -> NaN
          [] x.k = "inf" \/ y.k = "inf" -> Infinity
          [] OTHER                      -> Num(x.v + y.v)

\* a - b and a * b for a finite b
JsSub(a, b) ==
    LET x == JsToNumber(a)
    IN  CASE x.k = "nan" -> NaN
          [] x.k = "inf" -> Infinity
          [] OTHER       -> Num(x.v - b)

JsMul(a, b) ==
    LET x == JsToNumber(a)
        y == JsToNumber(b)
    IN  IF x.k = "num" /\ y.k = "num" THEN Num(x.v * y.v) ELSE NaN

\* Math.max / Math.min: NaN if either argument is NaN
JsMax(a, b) ==
    LET x == JsToNumber(a)
        y == JsToNumber(b)
    IN  CASE x.k = "nan" \/ y.k = "nan" -> NaN
          [] x.k = "inf" \/ y.k = "inf" -> Infinity
          [] OTHER                      -> IF x.v >= y.v THEN x ELSE y

JsMin(a, b) ==
    LET x == JsToNumber(a)
        y == JsToNumber(b)
    IN  CASE x.k = "nan" \/ y.k = "nan" -> NaN
          [] x.k = "inf"                -> y
          [] y.k = "inf"                -> x
          [] OTHER                      -> IF x.v <= y.v THEN x ELSE y

\* a > b: false when either side is NaN
JsGt(a, b) ==
    LET x == JsToNumber(a)
        y == JsToNumber(b)
    IN  CASE x.k = "nan" \/ y.k = "nan" -> FALSE
          [] y.k = "inf"                -> FALSE
          [] x.k = "inf"                -> TRUE
          [] OTHER                      -> x.v > y.v

\* Math.floor(index / d) for an index >= 0
JsFloorDiv(index, d) ==
    LET y == JsToNumber(d)
    IN  CASE y.k # "num"         -> NaN
          [] y.v = 0 /\ index = 0 -> NaN
          [] y.v = 0              -> Infinity
          [] OTHER                -> Num(index \div y.v)

\* index % d for an index >= 0
JsMod(index, d) ==
    LET y == JsToNumber(d)
    IN  IF y.k # "num" \/ y.v = 0 THEN NaN ELSE Num(index % y.v)

\* Math.ceil(n / d) for n >= 0 and a truthy d > 0
JsCeilDiv(n, d) == Num((n + d.v - 1) \div d.v)

-----------------------------------------------------------------------------
(***************************************************************************)
(* Strings the viewer compares are sequences: an id is the sequence of its *)
(* decimal digits, a text the sequence of its characters.                  *)
(***************************************************************************)
RECURSIVE Digits(_)
Digits(n) == IF n < 10 THEN << n >> ELSE Digits(n \div 10) \o << n % 10 >>

RECURSIVE NumVal(_)
NumVal(s) == IF s = << >> THEN 0 ELSE 10 * NumVal(SubSeq(s, 1, Len(s) - 1)) + s[Len(s)]

\* key1 < key2 and key1 > key2 on strings: the first differing code unit
\* decides, a proper prefix is smaller
RECURSIVE StrLess(_, _)
StrLess(a, b) ==
    CASE b = << >>    -> FALSE
      [] a = << >>    -> TRUE
      [] a[1] # b[1]  -> a[1] < b[1]
      [] OTHER        -> StrLess(Tail(a), Tail(b))
StrGreater(a, b) == StrLess(b, a)

\* text.indexOf(substr) !== -1
Contains(text, substr) ==
    \E i \in 0..(Len(text) - Len(substr)) : SubSeq(text, i + 1, i + Len(substr)) = substr

-----------------------------------------------------------------------------
(***************************************************************************)
(* processor.mjs: the sorters and the filters.                             *)
(***************************************************************************)
oldestToNewest_Lexicographic(key1, key2) ==
    IF StrGreater(key1, key2) THEN 1 ELSE IF StrLess(key1, key2) THEN -1 ELSE 0
oldestToNewest(key1, key2) ==
    IF Len(key1) = Len(key2)
    THEN IF StrGreater(key1, key2) THEN 1 ELSE IF StrLess(key1, key2) THEN -1 ELSE 0
    ELSE IF Len(key1) > Len(key2) THEN 1 ELSE -1

newestToOldest(key1, key2) ==
    IF Len(key1) = Len(key2)
    THEN IF StrGreater(key1, key2) THEN -1 ELSE IF StrLess(key1, key2) THEN 1 ELSE 0
    ELSE IF Len(key1) > Len(key2) THEN -1 ELSE 1

\* Array.prototype.sort(oldestToNewest): a stable sort, here by insertion
RECURSIVE InsertSorted(_, _)
InsertSorted(sorted, key) ==
    IF sorted = << >> THEN << key >>
    ELSE IF oldestToNewest(sorted[Len(sorted)], key) <= 0
         THEN Append(sorted, key)
         ELSE Append(InsertSorted(SubSeq(sorted, 1, Len(sorted) - 1), key), sorted[Len(sorted)])

\* a sort that leaves the keys in the order of Object.keys
SortOldestToNewest_FileOrder(keys) == keys

RECURSIVE SortOldestToNewest(_)
SortOldestToNewest(keys) ==
    IF keys = << >> THEN << >>
    ELSE InsertSorted(SortOldestToNewest(SubSeq(keys, 1, Len(keys) - 1)), keys[Len(keys)])

\* discord.mjs isImageUrl / isImageAttachment.  A url is [parses, ext]:
\* whether new URL(url) succeeds and the pathname from its last dot on.
ToLowerCase(ext) ==
    CASE ext = ".PNG" -> ".png"
      [] ext = ".Jpg" -> ".jpg"
      [] OTHER        -> ext
isImageUrl(url) == ToLowerCase(url.ext) \in {".png", ".gif", ".jpg", ".jpeg"}
isImageAttachment(attachment) == attachment.url.parses /\ isImageUrl(attachment.url)

Has(message, field) == field \in DOMAIN message

\* embed.type of an element of message.e: the exporter stores each embed as
\* a JSON string, and a string has no property "type"
EmbedType(embed) == IF embed.raw THEN "undefined" ELSE embed.type

\* FILTER.<kind>(value)(message), as the truthiness Array.filter sees.  The
\* value of "time" is << timeStart, timeEnd >>, and the value of "regex" a
\* pattern of plain characters, which matches where it occurs.
FilterMatches(f, message) ==
    CASE f.type = "user" -> message["u"] = f.value
      [] f.type = "contents" ->
            Contains(IF Has(message, "m") THEN message["m"] ELSE << >>, f.value)
      [] f.type = "withimages" ->
            \/ Has(message, "e") /\ \E i \in DOMAIN message["e"] : EmbedType(message["e"][i]) = "image"
            \/ Has(message, "a") /\ \E i \in DOMAIN message["a"] : isImageAttachment(message["a"][i])
      [] f.type = "withdownloads" ->
            Has(message, "a") /\ \E i \in DOMAIN message["a"] : ~isImageAttachment(message["a"][i])
      [] f.type = "edited" ->
            IF Has(message, "te") THEN message["te"] # 0
            ELSE Has(message, "f") /\ message["f"] % 2 = 1
      [] f.type = "time" -> message["t"] >= f.value[1] /\ message["t"] <= f.value[2]
      [] f.type = "regex" ->
            Contains(IF Has(message, "m") THEN message["m"] ELSE << >>, f.value)
      [] f.type = "withembeds" -> Has(message, "e") /\ Len(message["e"]) > 0
      [] f.type = "withattachments" -> Has(message, "a") /\ Len(message["a"]) > 0

-----------------------------------------------------------------------------
(***************************************************************************)
(* The archives a viewer can be given.  Channel ids, message ids and user  *)
(* ids are digit strings.  Archive 1 has channels 1, 2, 3 and messages in  *)
(* channels 1 and 2; archive 2 has channel 1 with one message.  A message  *)
(* is a function from the fields it carries to their values, as            *)
(* JSON.parse of an exported line yields (less id and c).                  *)
(***************************************************************************)
ArchiveIds == {1, 2}

\* Object.keys(meta.channels)
MetaChannels(a) == IF a = 1 THEN << <<1>>, <<2>>, <<3>> >> ELSE << <<1>> >>

\* Object.keys(data)
\* archive 2 holds the message id 3 in both of its channels
DataChannels(a) == IF a = 1 THEN << <<1>>, <<2>> >> ELSE << <<2>>, <<1>> >>

\* ids of channel 1 of archive 1, in file order: 9, 100, 7, 102, 5, ...
KeyValue(n) == IF n % 2 = 1 THEN 10 - n ELSE 98 + n

\* Object.keys(data[channel])
ChannelKeys(a, channel) ==
    CASE a = 1 /\ channel = <<1>> -> [n \in 1..MaxChanMsgs |-> Digits(KeyValue(n))]
      [] a = 1 /\ channel = <<2>> -> << Digits(12), Digits(8) >>
      [] a = 2 /\ channel = <<1>> -> << Digits(3) >>
      [] a = 2 /\ channel = <<2>> -> << Digits(3) >>
      [] OTHER                    -> << >>

\* data[channel][key]
MessageOf(a, channel, key) ==
    LET v == NumVal(key)
        present == {"u", "t"}
                   \cup (IF v % 3 # 0 THEN {"m"} ELSE {"a"})
                   \cup (IF v % 5 = 0 THEN {"e"} ELSE {})
                   \cup (IF v % 2 = 0 THEN {"te"} ELSE {})
    IN  [f \in present |->
            CASE f = "u"  -> Digits(100 + (v % 2))
              [] f = "t"  -> 1000 * a + v + (IF a = 2 THEN 100 * NumVal(channel) ELSE 0)
              [] f = "m"  -> IF v % 3 = 1 THEN << "h", "i" >> ELSE << >>
              [] f = "a"  -> << [name |-> "file",
                                 url |-> [parses |-> TRUE,
                                          ext |-> IF v % 2 = 1 THEN ".PNG" ELSE ".bin"]] >>
              [] f = "e"  -> << [raw |-> TRUE, type |-> "image"] >>
              [] f = "te" -> 2000 + v ]

\* Arguments the operations are called with.
UploadInputs ==
    { << Obj(a), Obj(a) >> : a \in ArchiveIds }
    \cup { << Null, Obj(1) >>, << Obj(1), Null >>, << Undef, Obj(1) >>, << Obj(1), Undef >> }
ChannelInputs == { StrVal(<< c >>) : c \in 1..4 }
KeyInputs ==
    { Digits(KeyValue(n)) : n \in 1..MaxChanMsgs } \cup { Digits(12), Digits(8), Digits(3), Digits(42) }
FilterInputs ==
    { Null,
      [type |-> "user", value |-> Digits(101)],
      [type |-> "contents", value |-> << "h" >>],
      [type |-> "withimages", value |-> << >>],
      [type |-> "withdownloads", value |-> << >>],
      [type |-> "edited", value |-> << >>],
      [type |-> "time", value |-> << 1008, 1100 >>],
      [type |-> "regex", value |-> << "i" >>],
      [type |-> "withembeds", value |-> << >>],
      [type |-> "withattachments", value |-> << >>] }
PageSizeInputs == 0..MaxPageSize
PickInputs == { NaN } \cup { Num(n) : n \in -1..(MaxChanMsgs + 1) }
NavActions == {"first", "prev", "next", "last", "pick"}

-----------------------------------------------------------------------------
(***************************************************************************)
(* state.mjs.  The callbacks onUsersRefreshed, onChannelsRefreshed and     *)
(* onMessagesRefreshed are the ones bootstrap.mjs registers.               *)
(***************************************************************************)
Ret(op, val, exc) == [op |-> op, val |-> val, exc |-> exc]

\* Reading a property of undefined or null throws a TypeError.
PropertyReadThrows(x) == x.k \in {"undef", "null"}

\* Object.keys(getMessages(channel)), for loadedFileData an object
getMessages(data, channel) ==
    IF channel.k = "str" THEN ChannelKeys(data.v, channel.v) ELSE << >>

\* a getMessageById that answers the entry of the last channel holding id
getMessageById_LastChannel(id) ==
    LET order == DataChannels(loadedFileData.v)
        hits == { i \in DOMAIN order : \E j \in DOMAIN ChannelKeys(loadedFileData.v, order[i]) :
                                          ChannelKeys(loadedFileData.v, order[i])[j] = id }
    IN  IF hits = {} THEN Null
        ELSE LET last == CHOOSE i \in hits : \A j \in hits : i >= j
             IN  Obj(MessageOf(loadedFileData.v, order[last], id))

getMessageById(id) ==
    LET order == DataChannels(loadedFileData.v)
        hits == { i \in DOMAIN order : \E j \in DOMAIN ChannelKeys(loadedFileData.v, order[i]) :
                                          ChannelKeys(loadedFileData.v, order[i])[j] = id }
    IN  IF hits = {} THEN Null
        ELSE LET first == CHOOSE i \in hits : \A j \in hits : i <= j
             IN  Obj(MessageOf(loadedFileData.v, order[first], id))

\* getMessageChannel answering the first channel for an id in no channel
getMessageChannel_FirstWhenAbsent(id) ==
    LET order == DataChannels(loadedFileData.v)
        hits == { i \in DOMAIN order : \E j \in DOMAIN ChannelKeys(loadedFileData.v, order[i]) :
                                          ChannelKeys(loadedFileData.v, order[i])[j] = id }
    IN  IF hits = {} THEN StrVal(order[1])
        ELSE StrVal(order[CHOOSE i \in hits : \A j \in hits : i <= j])

getMessageChannel(id) ==
    LET order == DataChannels(loadedFileData.v)
        hits == { i \in DOMAIN order : \E j \in DOMAIN ChannelKeys(loadedFileData.v, order[i]) :
                                          ChannelKeys(loadedFileData.v, order[i])[j] = id }
    IN  IF hits = {} THEN Null
        ELSE StrVal(order[CHOOSE i \in hits : \A j \in hits : i <= j])

\* loadedFileData[channel], Object.values(loadedFileData) and
\* Object.entries(loadedFileData) throw a TypeError on undefined and null.
LookupThrows == PropertyReadThrows(loadedFileData)

\* the keys of the channel with the active filter left out
getFilteredMessageKeys_Unfiltered(data, filter, channel) == getMessages(data, channel)

getFilteredMessageKeys(data, filter, channel) ==
    LET keys == getMessages(data, channel)
    IN  IF JsTruthy(filter)
        THEN SelectSeq(keys, LAMBDA key : FilterMatches(filter.v, MessageOf(data.v, channel.v, key)))
        ELSE keys

\* getPageCount, of a filtered list and a page size
PageCountOf_Floor(list, perPage) ==
    IF ~JsTruthy(list) THEN Num(0)
    ELSE IF ~JsTruthy(perPage) THEN Num(1)
    ELSE Num(Len(list.v) \div perPage.v)
PageCountOf(list, perPage) ==
    IF ~JsTruthy(list) THEN Num(0)
    ELSE IF ~JsTruthy(perPage) THEN Num(1)
    ELSE JsCeilDiv(Len(list.v), perPage)

getPageCount == PageCountOf(loadedMessages, messagesPerPage)

\* getCurrentPage: the value it leaves in currentPage, and what it returns
ClampedPage_NoClamp(page, list, perPage) == page
ClampedPage(page, list, perPage) ==
    LET total == PageCountOf(list, perPage)
    IN  IF JsGt(page, total) /\ JsGt(total, Num(0)) THEN total ELSE page

CurrentPageOf(page, list, perPage) == JsOr(ClampedPage(page, list, perPage), Num(1))

getCurrentPage == CurrentPageOf(currentPage, loadedMessages, messagesPerPage)

\* Array.prototype.slice(start, end) with start >= 0 or NaN, and end a
\* number >= 0 or undefined
JsSlice(list, start, end) ==
    LET from == IF start.k = "num" THEN start.v ELSE 0
        to == IF end.k = "num" THEN (IF end.v < Len(list) THEN end.v ELSE Len(list))
              ELSE Len(list)
    IN  SubSeq(list, from + 1, to)

\* The keys ("jump") of the records getMessageList returns
PageSlice_OffByOne(page, list, perPage) ==
    LET startIndex == JsMul(perPage, page)
    IN  JsSlice(list.v, startIndex,
                IF ~JsTruthy(perPage) THEN Undef ELSE JsAdd(startIndex, perPage))
PageSlice(page, list, perPage) ==
    LET startIndex == JsMul(perPage, JsSub(page, 1))
    IN  JsSlice(list.v, startIndex,
                IF ~JsTruthy(perPage) THEN Undef ELSE JsAdd(startIndex, perPage))

MessageListOf(page, list, perPage) ==
    IF ~JsTruthy(list) THEN << >>
    ELSE PageSlice(CurrentPageOf(page, list, perPage), list, perPage)

getMessageList == MessageListOf(currentPage, loadedMessages, messagesPerPage)

\* getMessageList maps each key through getUser, which reads
\* loadedFileMeta.users
MessageListThrows(meta, page, list, perPage) ==
    PropertyReadThrows(meta) /\ MessageListOf(page, list, perPage) # << >>

\* getChannelList reads loadedFileData[channel] for every channel of the
\* metadata
ChannelListThrows(meta, data) ==
    JsTruthy(meta) /\ MetaChannels(meta.v) # << >> /\ PropertyReadThrows(data)

\* triggerMessagesRefreshed: getMessageList and the registered callback
\* both call getCurrentPage, which may clamp currentPage
Refreshed(meta, page, list, perPage) ==
    [page |-> ClampedPage(page, list, perPage),
     exc  |-> IF MessageListThrows(meta, page, list, perPage) THEN "TypeError" ELSE "none"]

\* selectChannel(channel), under the filter that is active when it runs
SelectChannelEffect(filter, channel) ==
    IF PropertyReadThrows(loadedFileData)
    THEN [page |-> Num(1), channel |-> channel, list |-> loadedMessages, exc |-> "TypeError"]
    ELSE LET list == List(SortOldestToNewest(
                             getFilteredMessageKeys(loadedFileData, filter, channel)))
             after == Refreshed(loadedFileMeta, Num(1), list, messagesPerPage)
         IN  [page |-> after.page, channel |-> channel, list |-> list, exc |-> after.exc]

\* an uploadFile without the test for an archive that is already loaded
uploadFile_Reload(meta, data) ==
    /\ refreshes' = IF JsTypeof(meta) # "object" \/ JsTypeof(data) # "object" THEN << >>
                      ELSE IF ChannelListThrows(meta, data) THEN << "users", "channels" >>
                      ELSE << "users", "channels", "messages" >>
    /\ IF JsTypeof(meta) # "object" \/ JsTypeof(data) # "object"
       THEN /\ ret' = Ret("uploadFile", Undef, "Invalid file format!")
            /\ UNCHANGED <<state_vars, load_accepted>>
       ELSE /\ loadedFileMeta' = meta
            /\ loadedFileData' = data
            /\ loadedMessages' = Null
            /\ selectedChannel' = Null
            /\ currentPage' = Num(1)
            /\ ret' = Ret("uploadFile", Undef,
                          IF ChannelListThrows(meta, data) THEN "TypeError" ELSE "none")
            /\ load_accepted' = (load_accepted \/ ~ChannelListThrows(meta, data))
            /\ UNCHANGED <<filterFunction, messagesPerPage, hasActiveFilter>>

uploadFile(meta, data) ==
    /\ refreshes' = IF \/ JsNotNullish(loadedFileMeta)
                         \/ JsTypeof(meta) # "object" \/ JsTypeof(data) # "object"
                      THEN << >>
                      ELSE IF ChannelListThrows(meta, data) THEN << "users", "channels" >>
                      ELSE << "users", "channels", "messages" >>
    /\ IF JsNotNullish(loadedFileMeta)
       THEN /\ ret' = Ret("uploadFile", Undef, "A file is already loaded!")
            /\ UNCHANGED <<state_vars, load_accepted>>
       ELSE IF JsTypeof(meta) # "object" \/ JsTypeof(data) # "object"
       THEN /\ ret' = Ret("uploadFile", Undef, "Invalid file format!")
            /\ UNCHANGED <<state_vars, load_accepted>>
       ELSE /\ loadedFileMeta' = meta
            /\ loadedFileData' = data
            /\ loadedMessages' = Null
            /\ selectedChannel' = Null
            /\ currentPage' = Num(1)
            /\ ret' = Ret("uploadFile", Undef,
                          IF ChannelListThrows(meta, data) THEN "TypeError" ELSE "none")
            /\ load_accepted' = (load_accepted \/ ~ChannelListThrows(meta, data))
            /\ UNCHANGED <<filterFunction, messagesPerPage, hasActiveFilter>>

selectChannel(channel) ==
    /\ refreshes' = IF PropertyReadThrows(loadedFileData) THEN << >> ELSE << "messages" >>
    /\ LET effect == SelectChannelEffect(filterFunction, channel)
       IN  /\ currentPage' = effect.page
           /\ selectedChannel' = effect.channel
           /\ loadedMessages' = effect.list
           /\ ret' = Ret("selectChannel", Undef, effect.exc)
           /\ UNCHANGED <<loadedFileMeta, loadedFileData, filterFunction, messagesPerPage,
                          hasActiveFilter, load_accepted>>

setMessagesPerPage(amount) ==
    /\ refreshes' = << "messages" >>
    /\ LET after == Refreshed(loadedFileMeta, currentPage, loadedMessages, Num(amount))
       IN  /\ messagesPerPage' = Num(amount)
           /\ currentPage' = after.page
           /\ ret' = Ret("setMessagesPerPage", Undef, after.exc)
           /\ UNCHANGED <<loadedFileMeta, loadedFileData, loadedMessages, filterFunction,
                          selectedChannel, hasActiveFilter, load_accepted>>

\* navigation that moves and picks without looking at the page count
NavigatedPage_NoClamp(action, page) ==
    CASE action = "first" -> Num(1)
      [] action = "prev"  -> JsMax(Num(1), JsSub(currentPage, 1))
      [] action = "next"  -> JsAdd(currentPage, Num(1))
      [] action = "last"  -> getPageCount
      [] action = "pick"  -> JsMax(Num(1), page)

\* The page a navigation action assigns; page is parseInt(prompt(...))
NavigatedPage(action, page) ==
    CASE action = "first" -> Num(1)
      [] action = "prev"  -> JsMax(Num(1), JsSub(currentPage, 1))
      [] action = "next"  -> JsMin(getPageCount, JsAdd(currentPage, Num(1)))
      [] action = "last"  -> getPageCount
      [] action = "pick"  -> JsMax(Num(1), JsMin(getPageCount, page))

updateCurrentPage(action, page) ==
    /\ refreshes' = IF action = "pick" /\ ~JsTruthy(page) /\ page # Num(0) THEN << >>
                      ELSE << "messages" >>
    /\ IF action = "pick" /\ ~JsTruthy(page) /\ page # Num(0)
       THEN /\ ret' = Ret("updateCurrentPage", Undef, "none")
            /\ UNCHANGED <<state_vars, load_accepted>>
       ELSE LET after == Refreshed(loadedFileMeta, NavigatedPage(action, page),
                                   loadedMessages, messagesPerPage)
            IN  /\ currentPage' = after.page
                /\ ret' = Ret("updateCurrentPage", Undef, after.exc)
                /\ UNCHANGED <<loadedFileMeta, loadedFileData, loadedMessages, filterFunction,
                               selectedChannel, messagesPerPage, hasActiveFilter, load_accepted>>

\* loadedMessages.indexOf(id): 0-based, -1 when absent
IndexOf_ZeroWhenAbsent(list, id) ==
    IF \E i \in DOMAIN list : list[i] = id
    THEN (CHOOSE i \in DOMAIN list : list[i] = id /\ \A j \in DOMAIN list : list[j] = id => i <= j) - 1
    ELSE 0
IndexOf(list, id) ==
    IF \E i \in DOMAIN list : list[i] = id
    THEN (CHOOSE i \in DOMAIN list : list[i] = id /\ \A j \in DOMAIN list : list[j] = id => i <= j) - 1
    ELSE -1

\* a navigateToMessage without the test for a missing list: it selects the
\* channel that holds id in every state
navigateToMessage_SelectsOwner(id) ==
    /\ refreshes' = << "channels", "messages" >>
    /\ LET channel == IF loadedFileData.k = "obj" THEN getMessageChannel(id) ELSE Null
           effect == SelectChannelEffect(filterFunction,
                                         IF channel = Null THEN selectedChannel ELSE channel)
       IN  /\ currentPage' = effect.page
           /\ selectedChannel' = effect.channel
           /\ loadedMessages' = effect.list
           /\ ret' = Ret("navigateToMessage",
                         IF channel = Null THEN Num(-1) ELSE Num(0), effect.exc)
           /\ UNCHANGED <<loadedFileMeta, loadedFileData, filterFunction, messagesPerPage,
                          hasActiveFilter, load_accepted>>

\* the refreshes of navigateToMessage: triggerChannelsRefreshed(channel) and
\* the one of selectChannel when the channel changes, then its own
navigateToMessage_Refreshes(id) ==
    IF ~JsTruthy(loadedMessages) THEN << >>
    ELSE LET channel == getMessageChannel(id)
             switch == channel # Null /\ channel # selectedChannel
             sel == IF switch
                    THEN SelectChannelEffect(filterFunction, channel)
                    ELSE [page |-> currentPage, channel |-> selectedChannel,
                          list |-> loadedMessages, exc |-> "none"]
         IN  (IF switch THEN << "channels", "messages" >> ELSE << >>)
             \o (IF sel.exc = "none" /\ IndexOf(sel.list.v, id) # -1
                 THEN << "messages" >> ELSE << >>)

navigateToMessage(id) ==
    /\ refreshes' = navigateToMessage_Refreshes(id)
    /\ IF ~JsTruthy(loadedMessages)
       THEN /\ ret' = Ret("navigateToMessage", Num(-1), "none")
            /\ UNCHANGED <<state_vars, load_accepted>>
       ELSE LET channel == getMessageChannel(id)
                switch == channel # Null /\ channel # selectedChannel
                sel == IF switch
                       THEN SelectChannelEffect(filterFunction, channel)
                       ELSE [page |-> currentPage, channel |-> selectedChannel,
                             list |-> loadedMessages, exc |-> "none"]
                index == IndexOf(sel.list.v, id)
                page == JsMax(Num(1), JsMin(PageCountOf(sel.list, messagesPerPage),
                                            JsAdd(Num(1), JsFloorDiv(index, messagesPerPage))))
                after == Refreshed(loadedFileMeta, page, sel.list, messagesPerPage)
            IN  /\ selectedChannel' = sel.channel
                /\ loadedMessages' = sel.list
                /\ IF sel.exc # "none"
                   THEN /\ currentPage' = sel.page
                        /\ ret' = Ret("navigateToMessage", Undef, sel.exc)
                   ELSE IF index = -1
                   THEN /\ currentPage' = sel.page
                        /\ ret' = Ret("navigateToMessage", Num(-1), "none")
                   ELSE /\ currentPage' = after.page
                        /\ ret' = Ret("navigateToMessage",
                                      IF after.exc = "none" THEN JsMod(index, messagesPerPage)
                                      ELSE Undef,
                                      after.exc)
                /\ UNCHANGED <<loadedFileMeta, loadedFileData, filterFunction, messagesPerPage,
                               hasActiveFilter, load_accepted>>

\* The predicate setActiveFilter installs for filter2
FilterFunctionFor(filter2) ==
    IF filter2 # Null /\ filter2.type \in {"user", "contents", "withimages", "withdownloads", "edited"}
    THEN [k |-> "fn", v |-> filter2]
    ELSE Null

\* a setActiveFilter that re-selects the channel before it refreshes the
\* channel list
setActiveFilter_Refreshes_ListFirst ==
    IF ChannelListThrows(loadedFileMeta, loadedFileData) THEN << "channels" >>
    ELSE IF JsTruthy(selectedChannel) THEN << "messages", "channels" >>
    ELSE << "channels" >>

\* the refreshes of setActiveFilter: triggerChannelsRefreshed(selectedChannel),
\* then the one of selectChannel when a channel is selected
setActiveFilter_Refreshes ==
    IF ChannelListThrows(loadedFileMeta, loadedFileData) THEN << "channels" >>
    ELSE IF JsTruthy(selectedChannel) THEN << "channels", "messages" >>
    ELSE << "channels" >>

\* a setActiveFilter that installs the predicate and leaves the list alone
setActiveFilter_KeepList(filter2) ==
    /\ refreshes' = << >>
    /\ /\ filterFunction' = FilterFunctionFor(filter2)
       /\ hasActiveFilter' = (FilterFunctionFor(filter2) # Null)
       /\ ret' = Ret("setActiveFilter", Undef, "none")
       /\ UNCHANGED <<selectedChannel, loadedMessages, currentPage, loadedFileMeta,
                      loadedFileData, messagesPerPage, load_accepted>>

setActiveFilter(filter2) ==
    /\ refreshes' = setActiveFilter_Refreshes
    /\ LET fn == FilterFunctionFor(filter2)
       IN  /\ filterFunction' = fn
           /\ hasActiveFilter' = (fn # Null)
           /\ IF ChannelListThrows(loadedFileMeta, loadedFileData)
              THEN /\ ret' = Ret("setActiveFilter", Undef, "TypeError")
                   /\ UNCHANGED <<selectedChannel, loadedMessages, currentPage>>
              ELSE IF JsTruthy(selectedChannel)
              THEN LET effect == SelectChannelEffect(fn, selectedChannel)
                   IN  /\ currentPage' = effect.page
                       /\ selectedChannel' = effect.channel
                       /\ loadedMessages' = effect.list
                       /\ ret' = Ret("setActiveFilter", Undef, effect.exc)
              ELSE /\ ret' = Ret("setActiveFilter", Undef, "none")
                   /\ UNCHANGED <<selectedChannel, loadedMessages, currentPage>>
           /\ UNCHANGED <<loadedFileMeta, loadedFileData, messagesPerPage, load_accepted>>

\* gui.mjs, the click handler of #messages on an element with a data-jump
\* attribute: resetActiveFilter() empties the filter selection and
\* dispatches "change", which calls state.setActiveFilter(getActiveFilter())
\* with no active filter element, i.e. with null
\* a click handler that navigates without resetting the filter
JumpClicked_KeepFilter(id) ==
    /\ jump = << >>
    /\ getMessageList # << >>
    /\ jump' = << id >>
    /\ ret' = Ret("setActiveFilter", Undef, "none")
    /\ refreshes' = << >>
    /\ UNCHANGED <<state_vars, load_accepted>>

JumpClicked(id) ==
    /\ jump = << >>
    /\ getMessageList # << >>
    /\ setActiveFilter(Null)
    /\ jump' = IF ret'.exc = "none" THEN << id >> ELSE << >>

\* ... and, resetActiveFilter having returned, state.navigateToMessage(jump)
JumpNavigate ==
    /\ jump # << >>
    /\ navigateToMessage(jump[1])
    /\ jump' = << >>

\* The handlers bootstrap.mjs and gui.mjs register run one at a time.
ViewerNext ==
    \/ /\ jump = << >>
       /\ UNCHANGED jump
       /\ \/ \E input \in UploadInputs : uploadFile(input[1], input[2])
          \/ \E channel \in ChannelInputs : selectChannel(channel)
          \/ \E amount \in PageSizeInputs : setMessagesPerPage(amount)
          \/ \E action \in NavActions \ {"pick"} : updateCurrentPage(action, NaN)
          \/ \E page \in PickInputs : updateCurrentPage("pick", page)
          \/ \E id \in KeyInputs : navigateToMessage(id)
          \/ \E filter2 \in FilterInputs : setActiveFilter(filter2)
    \/ \E id \in KeyInputs : JumpClicked(id)
    \/ JumpNavigate

\* The exporter's variables while only the viewer runs
ExportIdle ==
    /\ messages_table = {}
    /\ store_fault = "none"
    /\ dump_json = FALSE
    /\ files = {}
    /\ prev_run = NoRun
    /\ ExportStart(1)

Init ==
    ViewerIdle /\ ExportIdle /\ HierarchyIdle /\ SorterIdle /\ EnrichIdle /\ SiblingsIdle
    /\ RenderIdle
    /\ PageIdle

Next ==
    ViewerNext /\ UNCHANGED <<export_vars, hierarchy_vars, sorter_vars, enrich_vars, sibling_vars,
                             render_vars, page_vars>>

Spec == Init /\ [][Next]_vars

-----------------------------------------------------------------------------
(***************************************************************************)
(* Properties of the document store and the pagination.                    *)
(***************************************************************************)
\* C4: once an uploadFile call has returned normally, every later
\* uploadFile call throws "A file is already loaded!" and changes nothing
\* of the store's state.
C4_LoadAcceptedOnce ==
    [][ (load_accepted /\ ret'.op = "uploadFile") =>
            (ret'.exc = "A file is already loaded!" /\ UNCHANGED state_vars) ]_vars

FilteredCount == IF loadedMessages.k = "list" THEN Len(loadedMessages.v) ELSE 0

\* the least q with q * d >= n
Ceiling(n, d) == CHOOSE q \in 0..n : q * d >= n /\ (q = 0 \/ (q - 1) * d < n)

\* C8 as the claim states it: the page count is 1 whenever the page size is
\* 0, and ceiling(filteredCount / pageSize) for a positive page size.
C8_PageCountAsClaimed ==
    /\ messagesPerPage = Num(0) => getPageCount = Num(1)
    /\ (messagesPerPage.k = "num" /\ messagesPerPage.v > 0) =>
           getPageCount = Num(Ceiling(FilteredCount, messagesPerPage.v))

\* C8, amended: while there is no filtered list (nothing loaded, or no
\* channel selected since the load) getPageCount returns 0 whatever the page
\* size; once there is one, it returns 1 for page size 0 and
\* ceiling(filteredCount / pageSize) for a positive page size.
C8_PageCount ==
    /\ loadedMessages.k # "list" => getPageCount = Num(0)
    /\ loadedMessages.k = "list" =>
          /\ messagesPerPage = Num(0) => getPageCount = Num(1)
          /\ (messagesPerPage.k = "num" /\ messagesPerPage.v > 0) =>
                 getPageCount = Num(Ceiling(FilteredCount, messagesPerPage.v))

\* A filtered list whose length is not a multiple of the page size.
C8_Witness ==
    /\ loadedMessages.k = "list"
    /\ messagesPerPage.k = "num" /\ messagesPerPage.v > 1
    /\ Len(loadedMessages.v) > messagesPerPage.v
    /\ Len(loadedMessages.v) % messagesPerPage.v # 0
    /\ getPageCount = Num((Len(loadedMessages.v) \div messagesPerPage.v) + 1)

\* C9: in every state the operations of the store can reach, the page
\* getCurrentPage reports is a number in 1..pageCount, and it is 1 when the
\* page count is 0.
C9_CurrentPageInRange ==
    /\ getCurrentPage.k = "num"
    /\ getPageCount.k = "num"
    /\ IF getPageCount.v = 0
       THEN getCurrentPage.v = 1
       ELSE 1 <= getCurrentPage.v /\ getCurrentPage.v <= getPageCount.v

\* The page size was just changed while a later page of several was shown.
C9_Witness ==
    /\ ret.op = "setMessagesPerPage"
    /\ getPageCount.k = "num" /\ getPageCount.v >= 2
    /\ getCurrentPage = getPageCount

RECURSIVE ConcatPages(_, _, _)
ConcatPages(k, list, perPage) ==
    IF k = 0 THEN << >>
    ELSE ConcatPages(k - 1, list, perPage) \o PageSlice(Num(k), list, perPage)

Minimum(a, b) == IF a <= b THEN a ELSE b

\* C10: the pages partition the filtered list.  With a positive page size p
\* the page getMessageList shows is the run of the list from index
\* (k - 1) * p to min(k * p, n) - 1 for the current page k, and the pages
\* 1..pageCount concatenated are the list; with page size 0 the one page is
\* the whole list.  120 messages at 50 per page make 3 pages, the last of
\* 20 messages, and a single page of 120 at page size 0.
C10_PagesPartitionList ==
    /\ loadedMessages.k = "list" =>
          LET list == loadedMessages.v
              k == getCurrentPage.v
          IN  /\ IF JsTruthy(messagesPerPage)
                 THEN getMessageList =
                          SubSeq(list, (k - 1) * messagesPerPage.v + 1,
                                 Minimum(k * messagesPerPage.v, Len(list)))
                 ELSE getMessageList = list
              /\ ConcatPages(getPageCount.v, loadedMessages, messagesPerPage) = list
    /\ LET hundredTwenty == List([i \in 1..120 |-> i])
       IN  /\ PageCountOf(hundredTwenty, Num(50)) = Num(3)
           /\ PageSlice(Num(3), hundredTwenty, Num(50)) = [i \in 1..20 |-> 100 + i]
           /\ PageCountOf(hundredTwenty, Num(0)) = Num(1)
           /\ PageSlice(Num(1), hundredTwenty, Num(0)) = hundredTwenty.v

\* The last page of several is shown and it is only partly filled.
C10_Witness ==
    /\ loadedMessages.k = "list"
    /\ messagesPerPage.k = "num" /\ messagesPerPage.v > 1
    /\ getPageCount.v >= 2
    /\ currentPage = getPageCount
    /\ getMessageList # << >>
    /\ Len(getMessageList) < messagesPerPage.v
    /\ getMessageList[Len(getMessageList)] = loadedMessages.v[Len(loadedMessages.v)]


\* Whether id is in the filtered sorted list of the channel that holds it,
\* under the filter that is active now
InOwnersFilteredList(id) ==
    /\ loadedFileData.k = "obj"
    /\ getMessageChannel(id) # Null
    /\ IndexOf(getFilteredMessageKeys(loadedFileData, filterFunction, getMessageChannel(id)), id) # -1

\* An archive is loaded, a channel's list is shown and a page size is set
ShowingList ==
    /\ loadedFileMeta.k = "obj"
    /\ loadedFileData.k = "obj"
    /\ loadedMessages.k = "list"
    /\ messagesPerPage.k = "num"

\* C11: while a channel's list is shown, a navigateToMessage(id) call for an
\* id that is in the filtered list of its owning channel returns normally a
\* number that is an index of the page then shown, and the message at that
\* index of the page is id; for every page size, 0 included.
C11_NavigateReturnsIndexInPage ==
    [][ \A id \in KeyInputs :
            (ShowingList /\ InOwnersFilteredList(id) /\ navigateToMessage(id)) =>
                /\ ret'.exc = "none"
                /\ ret'.val.k = "num"
                /\ ret'.val.v \in 0..(Len(getMessageList') - 1)
                /\ getMessageList'[ret'.val.v + 1] = id ]_vars

\* C12: a navigateToMessage(id) call for an id that is not in the filtered
\* list of a channel (an unknown id, or a message the active filter hides)
\* returns -1 and raises no exception.  The metadata of the store is what
\* loadData passes, the parsed metadata document, and not null.
C12_NotFoundIsSignalled ==
    [][ \A id \in KeyInputs :
            (loadedFileMeta # Null /\ ~InOwnersFilteredList(id) /\ navigateToMessage(id)) =>
                (ret'.exc = "none" /\ ret'.val = Num(-1)) ]_vars

\* A message that the active filter hides in its channel was looked for.
C12_Witness ==
    /\ ShowingList
    /\ hasActiveFilter
    /\ ret = Ret("navigateToMessage", Num(-1), "none")
    /\ \E id \in KeyInputs :
          /\ getMessageChannel(id) = selectedChannel
          /\ IndexOf(loadedMessages.v, id) = -1

\* C13: a navigateToMessage call that returns -1 leaves the selected channel
\* and the current page as they were, also when the message is in another
\* channel than the selected one.
C13_NotFoundChangesNothing ==
    [][ \A id \in KeyInputs :
            (ShowingList /\ navigateToMessage(id) /\ ret'.exc = "none" /\ ret'.val = Num(-1)) =>
                (selectedChannel' = selectedChannel /\ currentPage' = currentPage) ]_vars

\* The channels of the loaded data that have the message id among their keys
ChannelsHolding(id) ==
    { i \in DOMAIN DataChannels(loadedFileData.v) :
        \E j \in DOMAIN ChannelKeys(loadedFileData.v, DataChannels(loadedFileData.v)[i]) :
            ChannelKeys(loadedFileData.v, DataChannels(loadedFileData.v)[i])[j] = id }

\* The channel is a key of the loaded data
InLoadedData(channel) ==
    \E i \in DOMAIN DataChannels(loadedFileData.v) :
        DataChannels(loadedFileData.v)[i] = channel.v

\* C19: on a store whose data is the object loadData fills, no lookup
\* throws, getMessages gives an empty mapping for a channel that is not in
\* the data, and getMessageById and getMessageChannel give null for a
\* message id that no channel holds.
C19_LookupsSignalNotFound ==
    loadedFileData.k = "obj" =>
        /\ ~LookupThrows
        /\ \A channel \in ChannelInputs :
              ~InLoadedData(channel) => getMessages(loadedFileData, channel) = << >>
        /\ \A id \in KeyInputs :
              ChannelsHolding(id) = {} =>
                  (getMessageById(id) = Null /\ getMessageChannel(id) = Null)

\* The unknown channel 4 is selected and shows no message, and a jump to a
\* message id that no channel holds has returned -1.
C19_Witness ==
    /\ loadedFileData.k = "obj"
    /\ selectedChannel = StrVal(<< 4 >>)
    /\ loadedMessages = List(<< >>)
    /\ ret = Ret("navigateToMessage", Num(-1), "none")
    /\ getMessageChannel(Digits(42)) = Null

\* C21: on a store whose data is an object, selectChannel(channel) selects
\* the channel, sets the current page to 1, and makes the filtered list the
\* ids of the channel's messages that pass the active filter (all its ids
\* with no filter), each once, in ascending order of the id's number.
C21_SelectChannelLoadsFilteredList ==
    [][ \A channel \in ChannelInputs :
            (loadedFileData.k = "obj" /\ selectChannel(channel)) =>
                LET keys == ChannelKeys(loadedFileData.v, channel.v)
                    list == loadedMessages'.v
                IN  /\ selectedChannel' = channel
                    /\ currentPage' = Num(1)
                    /\ loadedMessages'.k = "list"
                    /\ { list[i] : i \in DOMAIN list } =
                          { keys[i] : i \in { j \in DOMAIN keys :
                                \/ ~JsTruthy(filterFunction)
                                \/ FilterMatches(filterFunction.v,
                                        MessageOf(loadedFileData.v, channel.v, keys[j])) } }
                    /\ \A i, j \in DOMAIN list : i < j => NumVal(list[i]) < NumVal(list[j]) ]_vars

\* Channel 1 was selected under a filter that keeps some of its messages
\* and hides others.
C21_Witness ==
    /\ loadedFileData = Obj(1)
    /\ ret = Ret("selectChannel", Undef, "none")
    /\ selectedChannel = StrVal(<< 1 >>)
    /\ hasActiveFilter
    /\ loadedMessages.k = "list"
    /\ Len(loadedMessages.v) \in 2..(MaxChanMsgs - 1)

C24_EveryFilterKindActivates ==
    [][ \A filter2 \in FilterInputs \ {Null} :
            ( /\ loadedFileMeta.k = "obj"
              /\ loadedFileData.k = "obj"
              /\ selectedChannel.k = "str"
              /\ setActiveFilter(filter2) ) =>
                LET keys == ChannelKeys(loadedFileData.v, selectedChannel.v)
                    list == loadedMessages'.v
                IN  /\ hasActiveFilter'
                    /\ loadedMessages'.k = "list"
                    /\ { list[i] : i \in DOMAIN list } =
                          { keys[i] : i \in { j \in DOMAIN keys :
                                FilterMatches(filter2,
                                    MessageOf(loadedFileData.v, selectedChannel.v, keys[j])) } }
      ]_vars

\* C25: while the "has image" filter is active on an exported archive, the
\* filtered list of the selected channel is exactly the messages that have
\* an embed whose type is "image" or an attachment whose url has an image
\* extension; a message with an image embed and no attachment is listed.
C25_HasImageKeepsImageEmbeds ==
    ( /\ loadedFileMeta.k = "obj"
      /\ loadedFileData.k = "obj"
      /\ filterFunction.k = "fn"
      /\ filterFunction.v.type = "withimages"
      /\ selectedChannel.k = "str"
      /\ loadedMessages.k = "list" ) =>
        LET keys == ChannelKeys(loadedFileData.v, selectedChannel.v)
            message(key) == MessageOf(loadedFileData.v, selectedChannel.v, key)
            imageEmbed(key) ==
                Has(message(key), "e") /\ \E i \in DOMAIN message(key)["e"] :
                                            message(key)["e"][i].type = "image"
            imageAttachment(key) ==
                Has(message(key), "a") /\ \E i \in DOMAIN message(key)["a"] :
                                            isImageAttachment(message(key)["a"][i])
        IN  { loadedMessages.v[i] : i \in DOMAIN loadedMessages.v } =
                { keys[i] : i \in { j \in DOMAIN keys :
                                      imageEmbed(keys[j]) \/ imageAttachment(keys[j]) } }

\* C32: the archive is loaded once the store holds a metadata document.
\* From then on no step changes the metadata or the messages, so the archive
\* goes from unloaded to loaded at most once; and selectChannel,
\* setActiveFilter, setMessagesPerPage, updateCurrentPage and
\* navigateToMessage never change either of them.
C32_LoadedArchiveIsReadOnly ==
    [][ /\ loadedFileMeta.k = "obj" => UNCHANGED <<loadedFileMeta, loadedFileData>>
        /\ ret'.op \in {"selectChannel", "setActiveFilter", "setMessagesPerPage",
                        "updateCurrentPage", "navigateToMessage"} =>
              UNCHANGED <<loadedFileMeta, loadedFileData>>
      ]_vars

\* On a loaded archive with a channel selected and a filter set, one more
\* uploadFile has been attempted.
C32_Witness ==
    /\ loadedFileMeta.k = "obj"
    /\ loadedFileData.k = "obj"
    /\ selectedChannel.k = "str"
    /\ filterFunction.k = "fn"
    /\ ret.op = "uploadFile"
    /\ ret.exc = "A file is already loaded!"

\* C36: in every reachable state the filtered list is either unset, and
\* then no channel is selected on the loaded data, or it holds exactly the
\* ids of the selected channel's messages that the filter active in that
\* state keeps, each once and in ascending order of the id's number; the
\* list is never one computed under an earlier filter or for another
\* channel.
C36_FilteredListNeverStale ==
    /\ (loadedMessages.k # "list" /\ loadedFileData.k = "obj") => ~JsTruthy(selectedChannel)
    /\ loadedMessages.k = "list" =>
          /\ loadedFileData.k = "obj"
          /\ selectedChannel.k = "str"
          /\ LET keys == ChannelKeys(loadedFileData.v, selectedChannel.v)
                 list == loadedMessages.v
             IN  /\ { list[i] : i \in DOMAIN list } =
                       { keys[i] : i \in { j \in DOMAIN keys :
                             \/ ~JsTruthy(filterFunction)
                             \/ FilterMatches(filterFunction.v,
                                     MessageOf(loadedFileData.v, selectedChannel.v, keys[j])) } }
                 /\ \A i, j \in DOMAIN list : i < j => NumVal(list[i]) < NumVal(list[j])

\* The filter was changed while channel 1 was shown, and the list then
\* holds some of the channel's messages and not others.
C36_Witness ==
    /\ ret = Ret("setActiveFilter", Undef, "none")
    /\ loadedFileData = Obj(1)
    /\ selectedChannel = StrVal(<< 1 >>)
    /\ filterFunction.k = "fn"
    /\ loadedMessages.k = "list"
    /\ Len(loadedMessages.v) \in 1..(MaxChanMsgs - 1)

\* C37: on a store whose data is an object, getMessageById(id) is non-null
\* exactly when getMessageChannel(id) is non-null, and then the channel
\* returned holds id among its keys and the message returned is the entry
\* stored under id in that channel, also when several channels hold id.
C37_LookupsAgree ==
    loadedFileData.k = "obj" =>
        \A id \in KeyInputs :
            /\ (getMessageById(id) # Null) <=> (getMessageChannel(id) # Null)
            /\ getMessageChannel(id) # Null =>
                  /\ \E j \in DOMAIN ChannelKeys(loadedFileData.v, getMessageChannel(id).v) :
                         ChannelKeys(loadedFileData.v, getMessageChannel(id).v)[j] = id
                  /\ getMessageById(id) =
                         Obj(MessageOf(loadedFileData.v, getMessageChannel(id).v, id))

\* The loaded data holds one id in two channels under different entries,
\* and a jump to that id has selected the channel getMessageChannel answers.
C37_Witness ==
    /\ loadedFileData.k = "obj"
    /\ \E id \in KeyInputs :
          /\ Cardinality(ChannelsHolding(id)) = 2
          /\ \E c, d \in ChannelInputs :
                /\ MessageOf(loadedFileData.v, c.v, id) # MessageOf(loadedFileData.v, d.v, id)
                /\ getMessageChannel(id) = c
                /\ selectedChannel = c
                /\ getMessageById(id) = Obj(MessageOf(loadedFileData.v, c.v, id))
          /\ ret = Ret("navigateToMessage", Num(0), "none")
          /\ loadedMessages = List(<< id >>)

\* C38: setActiveFilter never changes the selected channel or the page
\* size.  On a loaded store with a channel selected it sets the current page
\* to 1 and refreshes the channel list first and the message list, from
\* the recomputed filtered list, after it; with no channel selected it
\* refreshes the channel list only and the filtered list stays unset.
C38_SetActiveFilterEffects ==
    [][ \A filter2 \in FilterInputs :
            (ret'.op = "setActiveFilter" /\ setActiveFilter(filter2)) =>
                /\ selectedChannel' = selectedChannel
                /\ messagesPerPage' = messagesPerPage
                /\ (loadedFileMeta.k = "obj" /\ loadedFileData.k = "obj") =>
                      IF JsTruthy(selectedChannel)
                      THEN /\ currentPage' = Num(1)
                           /\ refreshes' = << "channels", "messages" >>
                           /\ loadedMessages'.k = "list"
                      ELSE /\ refreshes' = << "channels" >>
                           /\ loadedMessages' = loadedMessages
                           /\ loadedMessages.k # "list"
                           /\ currentPage' = currentPage ]_vars

\* The filter was set with channel 1 selected at one message per page: both
\* refreshes were made in order, and the store is on page 1 of a list that
\* holds some of the channel's messages.
C38_Witness ==
    /\ ret = Ret("setActiveFilter", Undef, "none")
    /\ refreshes = << "channels", "messages" >>
    /\ loadedFileMeta = Obj(1)
    /\ selectedChannel = StrVal(<< 1 >>)
    /\ messagesPerPage = Num(1)
    /\ currentPage = Num(1)
    /\ hasActiveFilter
    /\ loadedMessages.k = "list"
    /\ Len(loadedMessages.v) \in 2..(MaxChanMsgs - 1)

\* C39: with no active filter and a channel selected, a navigateToMessage(id)
\* call returns -1 only for an id that no channel of the loaded data holds.
\* The jump of the GUI, which clears the filter and then navigates, reaches
\* every message of a loaded archive: for an id that some channel holds the
\* navigation does not return -1, the first channel that holds the id is
\* selected and the page then shown lists the id.
C39_JumpReachesEveryMessage ==
    [][ /\ ( /\ ret' = Ret("navigateToMessage", Num(-1), "none")
              /\ ~JsTruthy(filterFunction)
              /\ JsTruthy(selectedChannel)
              /\ loadedFileData.k = "obj" ) =>
                 \A id \in KeyInputs : navigateToMessage(id) => ChannelsHolding(id) = {}
        /\ (JumpNavigate /\ loadedFileMeta.k = "obj" /\ ChannelsHolding(jump[1]) # {}) =>
              /\ ret'.exc = "none"
              /\ ret'.val # Num(-1)
              /\ selectedChannel' = getMessageChannel(jump[1])
              /\ \E i \in DOMAIN getMessageList' : getMessageList'[i] = jump[1]
      ]_vars

\* A jump from channel 1 under a filter has reached a message of channel 2.
C39_Witness ==
    /\ loadedFileMeta = Obj(1)
    /\ jump = << >>
    /\ ret.op = "navigateToMessage"
    /\ ret.val = Num(1)
    /\ refreshes = << "channels", "messages", "messages" >>
    /\ selectedChannel = StrVal(<< 2 >>)
    /\ ~JsTruthy(filterFunction)
    /\ getMessageList = << Digits(8), Digits(12) >>

\* C40: on a loaded store on which no channel has been selected yet,
\* navigateToMessage(id) returns -1 for every id, also for the id of a
\* message of the archive, raises nothing, makes no refresh, and leaves the
\* selected channel unset and the current page and the rest of the store as
\* they were.
C40_NavigateBeforeSelection ==
    [][ \A id \in KeyInputs :
            ( /\ ret'.op = "navigateToMessage"
              /\ loadedFileMeta.k = "obj"
              /\ selectedChannel = Null
              /\ navigateToMessage(id) ) =>
                /\ ret' = Ret("navigateToMessage", Num(-1), "none")
                /\ selectedChannel' = Null
                /\ currentPage' = currentPage
                /\ refreshes' = << >>
                /\ UNCHANGED state_vars ]_vars

\* Archive 1 is loaded, no channel is selected, "next" has moved the stored
\* page off 1, and a navigateToMessage call has returned -1.
C40_Witness ==
    /\ loadedFileMeta = Obj(1)
    /\ loadedFileData = Obj(1)
    /\ selectedChannel = Null
    /\ loadedMessages = Null
    /\ currentPage = Num(0)
    /\ ret = Ret("navigateToMessage", Num(-1), "none")
    /\ refreshes = << >>
    /\ getMessageChannel(Digits(12)) = StrVal(<< 2 >>)

-----------------------------------------------------------------------------
(***************************************************************************)
(* processor.mjs SORTER applied to id strings.  The ids are the decimal    *)
(* strings of up to MaxIdLen digits over SorterDigits, leading zeros        *)
(* included; the list that is sorted holds keyA, keyB and keyC.            *)
(***************************************************************************)
SorterDigits == {0, 1, 9}

IdStrings == UNION { [1..n -> SorterDigits] : n \in 1..MaxIdLen }

SortExtras == { << 9 >>, << 1, 0 >>, << 1, 0, 0 >> }

SorterInit ==
    /\ ViewerIdle
    /\ ExportIdle
    /\ HierarchyIdle
    /\ EnrichIdle
    /\ SiblingsIdle
    /\ RenderIdle
    /\ PageIdle
    /\ keyA \in IdStrings
    /\ keyB \in IdStrings
    /\ keyC \in SortExtras
    /\ compared = << >>
    /\ sortedKeys = << >>

\* SORTER.oldestToNewest(keyA, keyB)
Compare ==
    /\ compared = << >>
    /\ compared' = << oldestToNewest(keyA, keyB) >>
    /\ UNCHANGED <<keyA, keyB, keyC, sortedKeys>>

\* [keyA, keyB, keyC].sort(SORTER.oldestToNewest)
SortKeys ==
    /\ sortedKeys = << >>
    /\ sortedKeys' = << SortOldestToNewest(<< keyA, keyB, keyC >>) >>
    /\ UNCHANGED <<keyA, keyB, keyC, compared>>

SorterNext == Compare \/ SortKeys

SpecSorter ==
    SorterInit
    /\ [][SorterNext /\ UNCHANGED <<export_vars, viewer_vars, hierarchy_vars, enrich_vars, sibling_vars, render_vars, page_vars>>]_vars

NoLeadingZero(s) == Len(s) = 1 \/ s[1] # 0

Sign(n) == IF n > 0 THEN 1 ELSE IF n < 0 THEN -1 ELSE 0

\* C7: oldestToNewest orders two decimal id strings without leading zeros as
\* their numeric values compare; it is antisymmetric, transitive and returns 0
\* only for equal strings; sorting with it puts ids in ascending numeric
\* order, so "9", "10", "100" in any order come out as "9", "10", "100".
C7_SnowflakeOrder ==
    /\ compared # << >> =>
          /\ (NoLeadingZero(keyA) /\ NoLeadingZero(keyB)) =>
                 compared[1] = Sign(NumVal(keyA) - NumVal(keyB))
          /\ compared[1] = 0 - oldestToNewest(keyB, keyA)
          /\ (compared[1] = 0) <=> (keyA = keyB)
          /\ \A k \in IdStrings :
                 (compared[1] <= 0 /\ oldestToNewest(keyB, k) <= 0) => oldestToNewest(keyA, k) <= 0
    /\ sortedKeys # << >> =>
          /\ Len(sortedKeys[1]) = 3
          /\ \A k \in {keyA, keyB, keyC} :
                 Cardinality({i \in 1..3 : sortedKeys[1][i] = k})
                     = Cardinality({i \in 1..3 : << keyA, keyB, keyC >>[i] = k})
          /\ (NoLeadingZero(keyA) /\ NoLeadingZero(keyB)) =>
                 \A i \in 1..2 : NumVal(sortedKeys[1][i]) <= NumVal(sortedKeys[1][i + 1])
          /\ {keyA, keyB, keyC} = SortExtras =>
                 sortedKeys[1] = << << 9 >>, << 1, 0 >>, << 1, 0, 0 >> >>

C7_Witness ==
    /\ keyA = << 1, 0, 0 >>
    /\ keyB = << 9 >>
    /\ keyC = << 1, 0 >>
    /\ compared = << 1 >>
    /\ sortedKeys = << << << 9 >>, << 1, 0 >>, << 1, 0, 0 >> >> >>


-----------------------------------------------------------------------------
(***************************************************************************)
(* state.mjs generateChannelHierarchy and generateChannelOrder.  The       *)
(* metadata holds channels 1..MaxChannels with ids "1", "2", ...; the key  *)
(* "" (the empty sequence) is the virtual root.  A Map or Set is a         *)
(* sequence in insertion order, which is the order for-of visits it in.    *)
(***************************************************************************)
ChannelNumbers == 1..MaxChannels

RootId == << >>

\* Channel number 0 stands for a channel whose id is the empty string, the
\* key of the virtual root; the exporter writes no such channel.
ChannelId(n) == IF n = 0 THEN RootId ELSE Digits(n)

ChannelIds == { ChannelId(n) : n \in ChannelNumbers }

\* an id that no channel of the metadata has
DanglingId == ChannelId(MaxChannels + 1)

\* channel.parent: missing, "" or an id string
ParentInputs == {Undef} \union { StrVal(id) : id \in {RootId, DanglingId} \union ChannelIds }

\* meta.servers and the channel properties the ordering reads: odd channels
\* are in a server, even channels in a direct-message "server"; the position
\* of a channel is a number or missing
ChannelServer(n) == IF n % 2 = 1 THEN [type |-> "SERVER", name |-> 2] ELSE [type |-> "DM", name |-> 1]

ChannelPosition(n) == channel_position[n]

ChannelName(n) == MaxChannels + 1 - n

\* "DM", "GROUP", "SERVER", "unknown" in the order of localeCompare(_, "en")
TypeRank(type) ==
    CASE type = "DM"     -> 1
      [] type = "GROUP"  -> 2
      [] type = "SERVER" -> 3
      [] OTHER           -> 4

\* c.position || -1
PositionOrDefault(n) == JsOr(ChannelPosition(n), Num(-1)).v

\* the comparator of sortedChildren.sort
CompareChannels(id1, id2) ==
    LET c1 == NumVal(id1)
        c2 == NumVal(id2)
        s1 == ChannelServer(c1)
        s2 == ChannelServer(c2)
    IN  IF TypeRank(s1.type) # TypeRank(s2.type) THEN Sign(TypeRank(s1.type) - TypeRank(s2.type))
        ELSE IF s1.name # s2.name THEN Sign(s1.name - s2.name)
        ELSE IF PositionOrDefault(c1) # PositionOrDefault(c2)
             THEN PositionOrDefault(c1) - PositionOrDefault(c2)
        ELSE Sign(ChannelName(c1) - ChannelName(c2))

EmptyMap == [keys |-> << >>, kids |-> << >>]

MapHas(map, key) == \E i \in DOMAIN map.keys : map.keys[i] = key

\* hierarchy.get(key), << >> standing for both undefined and an empty Set
MapGet(map, key) ==
    IF MapHas(map, key) THEN map.kids[CHOOSE i \in DOMAIN map.keys : map.keys[i] = key] ELSE << >>

SetAdd(set, id) == IF \E i \in DOMAIN set : set[i] = id THEN set ELSE Append(set, id)

SetDelete(set, id) == SelectSeq(set, LAMBDA e : e # id)

\* getChildren(parentId): the Set of parentId, created empty when it is missing
getChildren(map, parentId) ==
    IF MapHas(map, parentId) THEN map
    ELSE [keys |-> Append(map.keys, parentId), kids |-> Append(map.kids, << >>)]

\* getChildren(parentId).add(id)
AddChild(map, parentId, id) ==
    LET made == getChildren(map, parentId)
        at == CHOOSE i \in DOMAIN made.keys : made.keys[i] = parentId
    IN  [made EXCEPT !.kids[at] = SetAdd(@, id)]

\* hierarchy.delete(key)
MapDelete(map, key) ==
    IF ~MapHas(map, key) THEN map
    ELSE LET at == CHOOSE i \in DOMAIN map.keys : map.keys[i] = key
             Without(seq) == SubSeq(seq, 1, at - 1) \o SubSeq(seq, at + 1, Len(seq))
         IN  [keys |-> Without(map.keys), kids |-> Without(map.kids)]

\* channel.parent || ""
ParentOrRoot(n) == JsOr(channel_parent[n], StrVal(RootId)).v

\* the loop over Object.entries(loadedFileMeta.channels), from channel n on
RECURSIVE Grouped(_, _)
Grouped(map, n) ==
    IF n > MaxChannels
    THEN (IF 0 \in DOMAIN channel_parent THEN AddChild(map, ParentOrRoot(0), ChannelId(0))
          ELSE map)
    ELSE Grouped(AddChild(map, ParentOrRoot(n), ChannelId(n)), n + 1)


\* for (const id of ids) getChildren(parentId).add(id)
RECURSIVE AddAll(_, _, _)
AddAll(map, parentId, ids) ==
    IF ids = << >> THEN map
    ELSE AddAll(AddChild(map, parentId, Head(ids)), parentId, Tail(ids))

\* one round of the loop over unreachableIds
FlattenGroup_Skip(map, unreachableId) == map
FlattenGroup_DropChildren(map, unreachableId) == MapDelete(map, unreachableId)
FlattenGroup(map, unreachableId) ==
    MapDelete(AddAll(map, RootId, MapGet(map, unreachableId)), unreachableId)

RECURSIVE Flattened(_, _)
Flattened(map, ids) ==
    IF ids = << >> THEN map
    ELSE Flattened(FlattenGroup(map, Head(ids)), Tail(ids))

\* sortedChildren.sort(comparator): a stable sort, here by insertion
RECURSIVE InsertChannel(_, _)
InsertChannel(sorted, id) ==
    IF sorted = << >> THEN << id >>
    ELSE IF CompareChannels(sorted[Len(sorted)], id) <= 0
         THEN Append(sorted, id)
         ELSE Append(InsertChannel(SubSeq(sorted, 1, Len(sorted) - 1), id), sorted[Len(sorted)])

RECURSIVE SortChannels(_)
SortChannels(ids) ==
    IF ids = << >> THEN << >>
    ELSE InsertChannel(SortChannels(SubSeq(ids, 1, Len(ids) - 1)), ids[Len(ids)])

RECURSIVE getSortedSubTree(_, _)
RECURSIVE SubTrees(_, _)
getSortedSubTree(map, parentId) ==
    IF ~MapHas(map, parentId) THEN << >>
    ELSE SubTrees(map, SortChannels(MapGet(map, parentId)))
\* the loop pushing each sorted child and then its own subtree
SubTrees(map, sortedChildren) ==
    IF sortedChildren = << >> THEN << >>
    ELSE << Head(sortedChildren) >> \o getSortedSubTree(map, Head(sortedChildren))
             \o SubTrees(map, Tail(sortedChildren))

\* orderMap[orderArray[i]] = i, a later index overwriting an earlier one
orderMap ==
    [id \in { orderArray[i] : i \in DOMAIN orderArray } |->
        (CHOOSE i \in DOMAIN orderArray :
            /\ orderArray[i] = id
            /\ \A j \in DOMAIN orderArray : orderArray[j] = id => j <= i) - 1]


\* generateChannelOrder has not started.  channel_parent is the parent property
\* of each entry of loadedFileMeta.channels, the only part of the store the
\* hierarchy depends on.
HierarchyInit ==
    /\ ViewerIdle
    /\ ExportIdle
    /\ SorterIdle
    /\ EnrichIdle
    /\ SiblingsIdle
    /\ RenderIdle
    /\ PageIdle
    /\ channel_parent \in [ChannelNumbers -> ParentInputs]
    /\ hierarchy = EmptyMap
    /\ unreachableIds = << >>
    /\ call_stack = << >>
    /\ hpc = "build"
    /\ orderArray = << >>

Frame(parentId, next) == [parentId |-> parentId, next |-> next]

\* the depth of calls at which the engine throws RangeError ("Maximum call
\* stack size exceeded"); the calls of a tree of MaxChannels channels are
\* at most MaxChannels + 1 deep
MaxStack == MaxChannels + 3

\* some group of the map has the root's own key among its children
RootIsChild(map) ==
    \E i \in DOMAIN map.kids : \E j \in DOMAIN map.kids[i] : map.kids[i][j] = RootId

\* generateChannelHierarchy up to the call reachIds(""), which starts by
\* deleting "" from unreachableIds
BuildGroups ==
    /\ hpc = "build"
    /\ hierarchy' = Grouped(EmptyMap, 1)
    /\ unreachableIds' = SetDelete(hierarchy'.keys, RootId)
    /\ call_stack' = << Frame(RootId, 1) >>
    /\ hpc' = "reach"
    /\ UNCHANGED <<channel_parent, orderArray>>

\* reachIds: the loop of the innermost call reaches its next child and calls
\* reachIds(id), which deletes id from unreachableIds
ReachCall ==
    /\ hpc = "reach"
    /\ LET top == call_stack[Len(call_stack)]
           children == MapGet(hierarchy, top.parentId)
       IN  /\ top.next <= Len(children)
           /\ Len(call_stack) < MaxStack
           /\ call_stack' = Append([call_stack EXCEPT ![Len(call_stack)].next = @ + 1],
                                   Frame(children[top.next], 1))
           /\ unreachableIds' = SetDelete(unreachableIds, children[top.next])
    /\ UNCHANGED <<channel_parent, hierarchy, hpc, orderArray>>

\* reachIds: the innermost call has no child left and returns
ReachReturn ==
    /\ hpc = "reach"
    /\ LET top == call_stack[Len(call_stack)]
       IN  top.next > Len(MapGet(hierarchy, top.parentId))
    /\ call_stack' = SubSeq(call_stack, 1, Len(call_stack) - 1)
    /\ hpc' = IF Len(call_stack) = 1 THEN "flatten" ELSE "reach"
    /\ UNCHANGED <<channel_parent, hierarchy, unreachableIds, orderArray>>

\* the rest of generateChannelHierarchy: every unreachable group is moved
\* under the root and deleted
Flatten ==
    /\ hpc = "flatten"
    /\ hierarchy' = Flattened(getChildren(hierarchy, RootId), unreachableIds)
    /\ hpc' = "order"
    /\ UNCHANGED <<channel_parent, unreachableIds, call_stack, orderArray>>

\* generateChannelOrder after the hierarchy is built
Order ==
    /\ hpc = "order"
    /\ ~RootIsChild(hierarchy)
    /\ orderArray' = getSortedSubTree(hierarchy, RootId)
    /\ hpc' = "done"
    /\ UNCHANGED <<channel_parent, hierarchy, unreachableIds, call_stack>>

HierarchyNext == BuildGroups \/ ReachCall \/ ReachReturn \/ Flatten \/ Order

SpecHierarchy ==
    HierarchyInit
    /\ [][HierarchyNext /\ UNCHANGED <<export_vars, viewer_vars, sorter_vars, enrich_vars, sibling_vars, render_vars, page_vars>>]_vars

RootChildren == { MapGet(hierarchy, RootId)[i] : i \in DOMAIN MapGet(hierarchy, RootId) }

\* The metadata may also hold a channel whose id is the empty string.
EmptyIdInit ==
    /\ ViewerIdle
    /\ ExportIdle
    /\ SorterIdle
    /\ EnrichIdle
    /\ SiblingsIdle
    /\ RenderIdle
    /\ PageIdle
    /\ \E numbers \in {ChannelNumbers, {0} \cup ChannelNumbers} :
          channel_parent \in [numbers -> ParentInputs]
    /\ hierarchy = EmptyMap
    /\ unreachableIds = << >>
    /\ call_stack = << >>
    /\ hpc = "build"
    /\ orderArray = << >>

\* reachIds: the next call would exceed the engine's stack; the RangeError
\* leaves generateChannelHierarchy
ReachOverflow ==
    /\ hpc = "reach"
    /\ LET top == call_stack[Len(call_stack)]
       IN  top.next <= Len(MapGet(hierarchy, top.parentId))
    /\ Len(call_stack) >= MaxStack
    /\ hpc' = "overflow"
    /\ UNCHANGED <<channel_parent, hierarchy, unreachableIds, call_stack, orderArray>>

\* getSortedSubTree(""): the root's key is a child in the tree, so the
\* calls for it never end and the engine throws RangeError
OrderOverflow ==
    /\ hpc = "order"
    /\ RootIsChild(hierarchy)
    /\ hpc' = "overflow"
    /\ UNCHANGED <<channel_parent, hierarchy, unreachableIds, call_stack, orderArray>>

EmptyIdNext == HierarchyNext \/ ReachOverflow \/ OrderOverflow

SpecEmptyId ==
    EmptyIdInit
    /\ [][EmptyIdNext /\ UNCHANGED <<export_vars, viewer_vars, sorter_vars, enrich_vars,
                                     sibling_vars, render_vars, page_vars>>]_vars

\* C35: for every set of channels and every assignment of parent links,
\* reachIds is never called for a group while a call for that group is
\* still active, and neither reachIds nor getSortedSubTree runs out of
\* stack: the resolution ends.
C35_ResolutionTerminates ==
    /\ hpc # "overflow"
    /\ \A i, j \in DOMAIN call_stack :
          i # j => call_stack[i].parentId # call_stack[j].parentId

\* C5: whatever the parent links are, the finished channel order lists every
\* channel exactly once, and the rank map is a bijection between the channel
\* ids and 0..n-1.
C5_OrderIsBijection ==
    hpc = "done" =>
        /\ Len(orderArray) = MaxChannels
        /\ DOMAIN orderMap = ChannelIds
        /\ { orderMap[id] : id \in DOMAIN orderMap } = 0..(MaxChannels - 1)
        /\ \A id1, id2 \in DOMAIN orderMap : orderMap[id1] = orderMap[id2] => id1 = id2

C5_Witness ==
    /\ hpc = "done"
    /\ \E n \in ChannelNumbers : channel_parent[n] = StrVal(ChannelId(n))
    /\ \E n \in ChannelNumbers : channel_parent[n] = StrVal(DanglingId)
    /\ DOMAIN orderMap = ChannelIds
    /\ orderArray[1] \in RootChildren

\* the parent keys of the metadata, and whether following parent links from
\* a key arrives at the virtual root
ParentKeys == { ParentOrRoot(n) : n \in ChannelNumbers }

RECURSIVE ReachesRoot(_, _)
ReachesRoot(key, fuel) ==
    \/ key = RootId
    \/ /\ fuel > 0
       /\ key \in ChannelIds
       /\ ReachesRoot(ParentOrRoot(NumVal(key)), fuel - 1)

ReachableKey(key) == ReachesRoot(key, MaxChannels)

\* C6: once generateChannelHierarchy has returned, a parent key that is not
\* reachable from the virtual root has no group in the tree and each of its
\* children is a direct child of the root; two channels that are each other's
\* parent are both root children.
C6_UnreachableGroupsFlattened ==
    hpc \in {"order", "done"} =>
        /\ \A key \in ParentKeys :
              ~ReachableKey(key) =>
                  /\ ~MapHas(hierarchy, key)
                  /\ \A n \in ChannelNumbers :
                        ParentOrRoot(n) = key => ChannelId(n) \in RootChildren
        /\ \A a, b \in ChannelNumbers :
              (a # b /\ ParentOrRoot(a) = ChannelId(b) /\ ParentOrRoot(b) = ChannelId(a)) =>
                  (ChannelId(a) \in RootChildren /\ ChannelId(b) \in RootChildren)

C6_Witness ==
    /\ hpc = "order"
    /\ ParentOrRoot(1) = ChannelId(2)
    /\ ParentOrRoot(2) = ChannelId(1)
    /\ ~MapHas(hierarchy, ChannelId(1))
    /\ ~MapHas(hierarchy, ChannelId(2))
    /\ {ChannelId(1), ChannelId(2)} \subseteq RootChildren


-----------------------------------------------------------------------------
(***************************************************************************)
(* process_message applied to one row of the messages table, for every     *)
(* combination of text and satellite rows.                                 *)
(***************************************************************************)
EnrichIds == 0..(RowShapes - 1)

EnrichInit ==
    /\ ViewerIdle
    /\ ExportIdle
    /\ HierarchyIdle
    /\ SorterIdle
    /\ SiblingsIdle
    /\ RenderIdle
    /\ PageIdle
    /\ enrich_row \in { MessageRow(id, FALSE) : id \in EnrichIds }
    /\ enriched = << >>

\* message_obj as process_message has built it before json.dumps
Enrich ==
    /\ enriched = << >>
    /\ enriched' = << process_message(enrich_row) >>
    /\ UNCHANGED enrich_row

EnrichNext == Enrich

SpecEnrich ==
    EnrichInit
    /\ [][EnrichNext /\ UNCHANGED <<export_vars, viewer_vars, hierarchy_vars, sorter_vars, sibling_vars, render_vars, page_vars>>]_vars

\* text is empty or NULL
NoText(row) == row.text = "" \/ row.text = "None"

\* C14: the exported document omits m exactly when the row's text is empty
\* or NULL and the message has an attachment or an embed; otherwise m is
\* present and holds the text, "" for an empty or NULL text.
C14_TextOmittedOnlyWithMedia ==
    enriched # << >> =>
        LET message_obj == enriched[1]
            id == enrich_row.message_id
        IN  /\ ("m" \notin DOMAIN message_obj) <=>
                   (NoText(enrich_row) /\ (AttachmentRows(id) # << >> \/ EmbedRows(id) # << >>))
            /\ "m" \in DOMAIN message_obj =>
                   message_obj["m"] = (IF NoText(enrich_row) THEN "" ELSE enrich_row.text)

\* Empty text with an attachment and no embed: m is omitted.
C14_Witness ==
    /\ enriched # << >>
    /\ enrich_row.text = ""
    /\ AttachmentRows(enrich_row.message_id) # << >>
    /\ EmbedRows(enrich_row.message_id) = << >>
    /\ "m" \notin DOMAIN enriched[1]
    /\ "a" \in DOMAIN enriched[1]


Fields(message_obj) == DOMAIN message_obj

\* C15 as the claim states it: id, c, u and t are always there, and a, e,
\* te, re, r are there exactly when the lookup found a row.
C15_OptionalFieldsAsClaimed ==
    enriched # << >> =>
        LET id == enrich_row.message_id
        IN  /\ {"id", "c", "u", "t"} \subseteq Fields(enriched[1])
            /\ ("a" \in Fields(enriched[1])) <=> (AttachmentRows(id) # << >>)
            /\ ("e" \in Fields(enriched[1])) <=> (EmbedRows(id) # << >>)
            /\ ("te" \in Fields(enriched[1])) <=> (EditTimestampRow(id) # << >>)
            /\ ("re" \in Fields(enriched[1])) <=> (ReactionRows(id) # << >>)
            /\ ("r" \in Fields(enriched[1])) <=> (RepliedToRow(id) # << >>)

\* C15, amended: id, c, u and t are always there; a, e, re and r are there
\* exactly when the lookup found a row, and te exactly when the lookup found
\* an edit timestamp other than 0; a lookup that finds nothing omits the
\* field and process_message still returns the document.
C15_OptionalFields ==
    enriched # << >> =>
        LET id == enrich_row.message_id
        IN  /\ {"id", "c", "u", "t"} \subseteq Fields(enriched[1])
            /\ Fields(enriched[1]) \subseteq {"id", "c", "u", "t", "m", "a", "e", "te", "re", "r"}
            /\ ("a" \in Fields(enriched[1])) <=> (AttachmentRows(id) # << >>)
            /\ ("e" \in Fields(enriched[1])) <=> (EmbedRows(id) # << >>)
            /\ ("te" \in Fields(enriched[1])) <=>
                   (EditTimestampRow(id) # << >> /\ EditTimestampRow(id)[1] # 0)
            /\ ("re" \in Fields(enriched[1])) <=> (ReactionRows(id) # << >>)
            /\ ("r" \in Fields(enriched[1])) <=> (RepliedToRow(id) # << >>)

\* The only satellite rows of the message are reactions and an edit
\* timestamp of 0.
C15_Witness ==
    /\ enriched # << >>
    /\ EditTimestampRow(enrich_row.message_id) = << 0 >>
    /\ Fields(enriched[1]) = {"id", "c", "u", "t", "m", "re"}

\* C16: every attachment of an exported document has both width and height
\* or neither.
C16_WidthAndHeightTogether ==
    enriched # << >> =>
        ("a" \in Fields(enriched[1]) =>
            \A i \in DOMAIN enriched[1]["a"] :
                ("width" \in DOMAIN enriched[1]["a"][i]) <=> ("height" \in DOMAIN enriched[1]["a"][i]))

\* An attachment row with a width and no height was exported without both.
C16_Witness ==
    /\ enriched # << >>
    /\ AttachmentShape(enrich_row.message_id) = 2
    /\ AttachmentRows(enrich_row.message_id)[1].width # 0
    /\ AttachmentRows(enrich_row.message_id)[1].height = 0
    /\ DOMAIN enriched[1]["a"][1] = {"url", "name"}


-----------------------------------------------------------------------------
(***************************************************************************)
(* Properties of the exporter's use of the source store.                   *)
(***************************************************************************)
\* the connections get_db_connection has opened, for any thread
OpenedConnections ==
    UNION { { << thread, n >> : n \in 1..opened_count[thread] } : thread \in DOMAIN opened_count }

\* C34: once generate_messages_ndjson has completed, every connection that
\* get_db_connection opened, for the main thread or a worker, is closed.
C34_AllConnectionsClosed ==
    pc \in {"write_metadata", "write_messages", "write_html", "done"} =>
        OpenedConnections \subseteq closed_conns

\* C17: during the export every thread opens at most one connection through
\* get_db_connection and runs all its queries on it, and a connection is
\* used only by the thread that opened it, whatever the interleaving of the
\* tasks over the workers.
C17_OneConnectionPerThread ==
    \A thread \in DOMAIN connection :
        /\ opened_count[thread] <= 1
        /\ Cardinality(conn_uses[thread]) <= 1
        /\ \A conn \in conn_uses[thread] : conn[1] = thread

\* Two workers have run three tasks between them, so one of them ran two,
\* and each worker and the main thread opened one connection and used it.
C17_Witness ==
    /\ num_threads = 2
    /\ Len(completed) = 3
    /\ \A thread \in DOMAIN connection :
          /\ opened_count[thread] = 1
          /\ conn_uses[thread] = { << thread, 1 >> }

\* C18: when a read of the source store fails, the run never reaches a file
\* write and no file exists; and the metadata fetch_metadata returns has all
\* of users, servers and channels.
C18_StoreFailureIsFatal ==
    /\ store_fault # "none" =>
          /\ files = {}
          /\ pc \notin {"write_metadata", "write_messages", "write_html", "done"}
    /\ (store_fault = "counts" => pc \in {"print_counts", "failed"})
    /\ (store_fault \in {"users", "servers", "channels"} =>
            pc \in {"print_counts", "fetch_metadata", "failed"})
    /\ metadata # << >> => metadata[1] = {"users", "servers", "channels"}

\* The query on servers failed after the users were read: the run has
\* ended with no metadata and no file.
C18_Witness ==
    /\ store_fault = "servers"
    /\ pc = "failed"
    /\ metadata = << >>
    /\ files = {}


-----------------------------------------------------------------------------
(***************************************************************************)
(* getSortedSubTree sorting the children of one parent: the positions of   *)
(* the channels and the insertion order of the group are arbitrary.        *)
(***************************************************************************)
\* channel.position in the metadata: missing, or a number
PositionInputs == { Undef, Num(0), Num(1) }

\* Array.from(children): distinct channel ids in any insertion order
GroupInputs ==
    { g \in UNION { [1..k -> ChannelIds] : k \in 0..MaxChannels } :
        \A i, j \in DOMAIN g : g[i] = g[j] => i = j }

SiblingsInit ==
    /\ ViewerIdle
    /\ ExportIdle
    /\ HierarchyIdle
    /\ SorterIdle
    /\ EnrichIdle
    /\ RenderIdle
    /\ PageIdle
    /\ channel_position \in [ChannelNumbers -> PositionInputs]
    /\ sibling_group \in GroupInputs
    /\ sibling_sorted = << >>

\* sortedChildren.sort((id1, id2) => ...)
SortSiblings ==
    /\ sibling_sorted = << >>
    /\ sibling_sorted' = << SortChannels(sibling_group) >>
    /\ UNCHANGED <<channel_position, sibling_group>>

SiblingsNext == SortSiblings

SpecSiblings ==
    SiblingsInit
    /\ [][SiblingsNext /\ UNCHANGED <<export_vars, viewer_vars, hierarchy_vars,
                                      sorter_vars, enrich_vars, render_vars, page_vars>>]_vars

\* C20: in a sorted sibling group, of two channels of the same server the
\* one with the smaller position comes first, a missing position counting
\* as -1 (below position 0), and the channel name decides only between
\* channels of equal position.
C20_SiblingsByPositionThenName ==
    sibling_sorted # << >> =>
        LET sorted == sibling_sorted[1]
            position(id) == IF ChannelPosition(NumVal(id)) = Undef THEN -1
                            ELSE ChannelPosition(NumVal(id)).v
        IN  \A i, j \in DOMAIN sorted :
                (i < j /\ ChannelServer(NumVal(sorted[i])) = ChannelServer(NumVal(sorted[j]))) =>
                    \/ position(sorted[i]) < position(sorted[j])
                    \/ /\ position(sorted[i]) = position(sorted[j])
                       /\ ChannelName(NumVal(sorted[i])) <= ChannelName(NumVal(sorted[j]))

-----------------------------------------------------------------------------
(***************************************************************************)
(* state.mjs getChannelList, on archive 1 with the channels of the         *)
(* hierarchy as its metadata: generateChannelOrder runs first, then the    *)
(* entries are built and sorted.                                           *)
(***************************************************************************)
\* channelOrder[ac.id] - channelOrder[bc.id]; a NaN result counts as 0
CompareRank(ac, bc) ==
    IF ac.id \in DOMAIN orderMap /\ bc.id \in DOMAIN orderMap
    THEN orderMap[ac.id] - orderMap[bc.id]
    ELSE 0

\* Array.prototype.sort(comparator) on the entries: a stable sort
RECURSIVE InsertEntry(_, _)
InsertEntry(sorted, entry) ==
    IF sorted = << >> THEN << entry >>
    ELSE IF CompareRank(sorted[Len(sorted)], entry) <= 0
         THEN Append(sorted, entry)
         ELSE Append(InsertEntry(SubSeq(sorted, 1, Len(sorted) - 1), entry), sorted[Len(sorted)])

RECURSIVE SortEntries(_)
SortEntries(entries) ==
    IF entries = << >> THEN << >>
    ELSE InsertEntry(SortEntries(SubSeq(entries, 1, Len(entries) - 1)), entries[Len(entries)])

\* Object.keys(channels).map(key => ({id, msgcount, ...})).sort(...)
getChannelList ==
    IF ~JsTruthy(loadedFileMeta) THEN << >>
    ELSE SortEntries([n \in ChannelNumbers |->
            [id |-> ChannelId(n),
             msgcount |-> Len(getFilteredMessageKeys(loadedFileData, filterFunction,
                                                     StrVal(ChannelId(n))))]])

\* A store is loaded, a filter may be active, no channel is selected
ChannelListInit ==
    /\ ExportIdle
    /\ SorterIdle
    /\ EnrichIdle
    /\ SiblingsIdle
    /\ RenderIdle
    /\ PageIdle
    /\ channel_parent \in [ChannelNumbers -> ParentInputs]
    /\ hierarchy = EmptyMap
    /\ unreachableIds = << >>
    /\ call_stack = << >>
    /\ hpc = "build"
    /\ orderArray = << >>
    /\ loadedFileMeta = Obj(1)
    /\ loadedFileData = Obj(1)
    /\ loadedMessages = Null
    /\ \E filter2 \in FilterInputs :
          /\ filterFunction = FilterFunctionFor(filter2)
          /\ hasActiveFilter = (FilterFunctionFor(filter2) # Null)
    /\ selectedChannel = Null
    /\ currentPage = Num(1)
    /\ messagesPerPage = Undef
    /\ ret = Ret("uploadFile", Undef, "none")
    /\ refreshes = << "users", "channels", "messages" >>
    /\ jump = << >>
    /\ load_accepted = TRUE

\* getChannelList, from the return of generateChannelOrder on
ChannelList ==
    /\ hpc = "done"
    /\ ret.op # "getChannelList"
    /\ ret' = Ret("getChannelList", List(getChannelList), "none")
    /\ UNCHANGED <<state_vars, refreshes, jump, load_accepted, hierarchy_vars>>

ChannelListNext ==
    \/ HierarchyNext /\ UNCHANGED viewer_vars
    \/ ChannelList

SpecChannelList ==
    ChannelListInit
    /\ [][ChannelListNext /\ UNCHANGED <<export_vars, sorter_vars, enrich_vars,
                                         sibling_vars, render_vars, page_vars>>]_vars

\* C23: the list getChannelList returns has one entry for each channel of
\* the metadata, the msgcount of an entry is the number of the channel's
\* messages that pass the active filter (all of them with no filter), and
\* the entries are in ascending order of their rank in the channel order.
C23_ChannelListCountsAndOrder ==
    ret.op = "getChannelList" =>
        LET list == ret.val.v
            passing(channel) ==
                { key \in { ChannelKeys(loadedFileData.v, channel)[i] :
                              i \in DOMAIN ChannelKeys(loadedFileData.v, channel) } :
                    \/ ~JsTruthy(filterFunction)
                    \/ FilterMatches(filterFunction.v,
                                     MessageOf(loadedFileData.v, channel, key)) }
        IN  /\ Len(list) = Cardinality(ChannelIds)
            /\ { list[i].id : i \in DOMAIN list } = ChannelIds
            /\ \A i \in DOMAIN list : list[i].msgcount = Cardinality(passing(list[i].id))
            /\ \A i, j \in DOMAIN list : i < j => orderMap[list[i].id] < orderMap[list[j].id]

\* A filter that hides some messages of a channel is active, and the list
\* is not in the order of the metadata's keys.
C23_Witness ==
    /\ ret.op = "getChannelList"
    /\ hasActiveFilter
    /\ ret.val.v[1].id # ChannelId(1)
    /\ \E i \in DOMAIN ret.val.v :
          /\ ret.val.v[i].msgcount > 0
          /\ ret.val.v[i].msgcount < Len(ChannelKeys(loadedFileData.v, ret.val.v[i].id))

-----------------------------------------------------------------------------
(***************************************************************************)
(* discord.mjs processMessageContents.  A text is a list of tokens [k, v,  *)
(* w]: a "char" is one character; a "url" is a URL and the space after     *)
(* it; a "noembed" is a URL in angle brackets; a "mention_user" or         *)
(* "mention_channel" is <@id> or <#id>.  Escaping turns "<", ">" and "&"   *)
(* into "entity" tokens and the bracketed forms into their "escaped_"      *)
(* kinds; the markup a replacement writes is an "html" token.              *)
(***************************************************************************)
Tok(k, v) == [k |-> k, v |-> v, w |-> ""]

IsChar(token, c) == token.k = "char" /\ token.v = c

\* the users and channels of loadedFileMeta that rendering looks up
RenderUsers == {"100", "101"}

RenderChannels == {"1"}

UserName(user) == IF user = "100" THEN "alice" ELSE "bob"

\* only user 100 has a displayName
UserDisplayName(user) == IF user = "100" THEN "Al" ELSE ""

\* getChannelName: channelObj && channelObj.name || channel
getChannelName(channel) == IF channel \in RenderChannels THEN "general" ELSE channel

\* getUserName: userObj && userObj.name || user
getUserName(user) == IF user \in RenderUsers THEN UserName(user) ELSE user

\* a getUserDisplayName that answers getUser's placeholder for an unknown id
getUserDisplayName_Placeholder(user) ==
    IF user \notin RenderUsers THEN "&lt;unknown&gt;"
    ELSE IF UserDisplayName(user) # "" THEN UserDisplayName(user)
    ELSE UserName(user)

\* getUserDisplayName: userObj && (userObj.displayName || userObj.name) || user
getUserDisplayName(user) ==
    IF user \notin RenderUsers THEN user
    ELSE IF UserDisplayName(user) # "" THEN UserDisplayName(user)
    ELSE UserName(user)

\* contents.replace(regex.formatUrlNoEmbed, "$1")
formatUrlNoEmbed(text) ==
    [i \in 1..Len(text) |-> IF text[i].k = "noembed" THEN Tok("url", text[i].v)
                             ELSE text[i]]

\* an escapeHTML that returns its argument
escapeHTML_Nothing(text) == text

\* dom.escapeHTML: & < > " ' to their entities
escapeHTML(text) ==
    [i \in 1..Len(text) |->
        LET token == text[i] IN
        CASE IsChar(token, "<") -> Tok("entity", "&lt;")
          [] IsChar(token, ">") -> Tok("entity", "&gt;")
          [] IsChar(token, "&") -> Tok("entity", "&amp;")
          [] token.k \in {"noembed", "mention_user", "mention_channel"} ->
                [token EXCEPT !.k = IF token.k = "noembed" THEN "escaped_noembed"
                                    ELSE IF token.k = "mention_user" THEN "escaped_mention_user"
                                    ELSE "escaped_mention_channel"]
          [] token.k \in {"emoji_static", "emoji_animated"} ->
                [token EXCEPT !.k = IF token.k = "emoji_static" THEN "escaped_emoji_static"
                                    ELSE "escaped_emoji_animated"]
          [] OTHER -> token]

\* the first n tokens of text are asterisks
StarsAt(text, n) == Len(text) >= n /\ \A i \in 1..n : IsChar(text[i], "*")

\* formatBold (n = 2) and formatItalic1 (n = 1): n asterisks, the shortest
\* non-empty run of anything, n asterisks not followed by an asterisk
RECURSIVE WrapStars(_, _, _)
WrapStars(text, n, tag) ==
    IF text = << >> THEN << >>
    ELSE LET ends == { j \in (n + 2)..(Len(text) - n + 1) :
                         /\ StarsAt(SubSeq(text, j, Len(text)), n)
                         /\ (j + n > Len(text) \/ ~IsChar(text[j + n], "*")) }
         IN  IF StarsAt(text, n) /\ ends # {}
             THEN LET j == CHOOSE e \in ends : \A o \in ends : e <= o
                  IN  << Tok("html", tag) >> \o SubSeq(text, n + 1, j - 1)
                        \o << Tok("html", IF tag = "b" THEN "/b" ELSE "/i") >>
                        \o WrapStars(SubSeq(text, j + n, Len(text)), n, tag)
             ELSE << Head(text) >> \o WrapStars(Tail(text), n, tag)

\* processed.replace(regex.formatUrl, "<a href='$1' ...>$1</a>")
formatUrl(text) ==
    [i \in 1..Len(text) |-> IF text[i].k = "url" THEN Tok("link", text[i].v)
                             ELSE text[i]]

\* processed.replace(regex.mentionChannel, ...): the regex is written for
\* the escaped form
mentionChannel(text) ==
    [i \in 1..Len(text) |->
        IF text[i].k = "escaped_mention_channel"
        THEN [k |-> "span_channel", v |-> getChannelName(text[i].v), w |-> ""]
        ELSE text[i]]

\* processed.replace(regex.mentionUser, ...): v is the text, w the title
mentionUser(text) ==
    [i \in 1..Len(text) |->
        IF text[i].k = "escaped_mention_user"
        THEN [k |-> "span_user", v |-> getUserDisplayName(text[i].v),
              w |-> getUserName(text[i].v)]
        ELSE text[i]]

\* getEmoji(name, id, extension): v is the name, w the extension
getEmoji(name, extension) == [k |-> "img", v |-> name, w |-> extension]

\* processed.replace(regex.customEmojiStatic, ...): "&lt;:name:id&gt;"
customEmojiStatic(text) ==
    [i \in 1..Len(text) |->
        IF text[i].k = "escaped_emoji_static" THEN getEmoji(text[i].v, "webp") ELSE text[i]]

\* processed.replace(regex.customEmojiAnimated, ...): "&lt;a:name:id&gt;"
customEmojiAnimated(text, animatedEmojiExtension) ==
    [i \in 1..Len(text) |->
        IF text[i].k = "escaped_emoji_animated"
        THEN getEmoji(text[i].v, animatedEmojiExtension) ELSE text[i]]

FormattingStages ==
    << "specialEscapedBacktick", "formatCodeBlock", "formatCodeInline",
       "specialEscapedSingle", "specialEscapedDouble", "formatBold", "formatUnderline",
       "formatItalic1", "formatItalic2", "formatStrike" >>

\* the replacements in the order they are applied if the formatting
\* switch is not looked at
StageOrder_AlwaysFormat(enableFormatting) ==
    << "formatUrlNoEmbed", "escapeHTML" >> \o FormattingStages
    \o << "formatUrl", "mentionChannel", "mentionUser", "customEmojiStatic",
          "customEmojiAnimated" >>

\* the replacements of processMessageContents in the order it applies them
StageOrder(enableFormatting) ==
    << "formatUrlNoEmbed", "escapeHTML" >>
    \o (IF enableFormatting THEN FormattingStages ELSE << >>)
    \o << "formatUrl", "mentionChannel", "mentionUser", "customEmojiStatic",
          "customEmojiAnimated" >>

\* One replacement.  The texts have no backtick, backslash, underscore or
\* tilde, so the replacements for those match nothing.
ApplyStage(stage, text) ==
    CASE stage = "formatUrlNoEmbed" -> formatUrlNoEmbed(text)
      [] stage = "escapeHTML"       -> escapeHTML(text)
      [] stage = "formatBold"       -> WrapStars(text, 2, "b")
      [] stage = "formatItalic1"    -> WrapStars(text, 1, "i")
      [] stage = "formatUrl"        -> formatUrl(text)
      [] stage = "mentionChannel"   -> mentionChannel(text)
      [] stage = "mentionUser"      -> mentionUser(text)
      [] stage = "customEmojiStatic" -> customEmojiStatic(text)
      [] stage = "customEmojiAnimated" ->
            customEmojiAnimated(text, IF settings.enableAnimatedEmoji THEN "gif" ELSE "webp")
      [] OTHER                      -> text

RECURSIVE ApplyStages(_, _)
ApplyStages(order, text) ==
    IF order = << >> THEN text
    ELSE ApplyStages(Tail(order), ApplyStage(Head(order), text))

\* processMessageContents(contents)
processMessageContents(text, enableFormatting) ==
    << Tok("html", "p") >> \o ApplyStages(StageOrder(enableFormatting), text)
        \o << Tok("html", "/p") >>

ContentAlphabet ==
    { Tok("char", "<"), Tok("char", "&"), Tok("char", "*"), Tok("char", "x"),
      Tok("url", "U"), Tok("noembed", "U") }

TextInputs == UNION { [1..n -> ContentAlphabet] : n \in 0..MaxTextLen }

\* texts of a URL, mentions, the static emoji S, the animated emoji A and
\* asterisks
SubstitutionAlphabet ==
    { Tok("url", "U"), Tok("mention_user", "100"), Tok("mention_channel", "1"),
      Tok("emoji_static", "S"), Tok("emoji_animated", "A"), Tok("char", "*") }

SubstitutionInputs == UNION { [1..n -> SubstitutionAlphabet] : n \in 0..(MaxTextLen - 1) }

ContentsInit ==
    /\ ViewerIdle
    /\ ExportIdle
    /\ HierarchyIdle
    /\ SorterIdle
    /\ EnrichIdle
    /\ SiblingsIdle
    /\ PageIdle
    /\ \E formatting \in BOOLEAN, animated \in BOOLEAN :
          /\ settings = [enableImagePreviews |-> TRUE, enableFormatting |-> formatting,
                         enableUserAvatars |-> TRUE, enableAnimatedEmoji |-> animated]
          /\ \/ contents \in TextInputs /\ animated
             \/ contents \in SubstitutionInputs
    /\ processed = << >>
    /\ stages = << >>
    /\ render_message = << >>
    /\ rendered = << >>

\* the next replacement of the chain, on the raw contents when it is the first
Replace ==
    /\ Len(stages) < Len(StageOrder(settings.enableFormatting))
    /\ LET stage == StageOrder(settings.enableFormatting)[Len(stages) + 1]
       IN  /\ processed' = ApplyStage(stage, IF stages = << >> THEN contents ELSE processed)
           /\ stages' = Append(stages, stage)
    /\ UNCHANGED <<settings, contents, render_message, rendered>>

\* return "<p>" + processed + "</p>"
ReturnContents ==
    /\ Len(stages) = Len(StageOrder(settings.enableFormatting))
    /\ processed' = << Tok("html", "p") >> \o processed \o << Tok("html", "/p") >>
    /\ stages' = Append(stages, "return")
    /\ UNCHANGED <<settings, contents, render_message, rendered>>

ContentsNext == Replace \/ ReturnContents

SpecContents ==
    ContentsInit
    /\ [][ContentsNext /\ UNCHANGED <<export_vars, viewer_vars, hierarchy_vars, sorter_vars,
                                      enrich_vars, sibling_vars, page_vars>>]_vars

\* the stages of a history that are among the named ones, in their order
Among(history, names) ==
    SelectSeq(history, LAMBDA stage : \E i \in DOMAIN names : names[i] = stage)

IsPrefix(a, b) == Len(a) <= Len(b) /\ a = SubSeq(b, 1, Len(a))

\* C26 as stated: escaping is the first replacement applied, and the
\* replacements run in the order escaping, no-embed unwrap, code block,
\* inline code, literal escapes, bold, underline, italic, strikethrough.
C26_EscapingFirstAsClaimed ==
    LET claimed == << "escapeHTML", "formatUrlNoEmbed", "formatCodeBlock", "formatCodeInline",
                      "specialEscapedSingle", "specialEscapedDouble", "formatBold",
                      "formatUnderline", "formatItalic1", "formatItalic2", "formatStrike" >>
    IN  /\ stages # << >> => stages[1] = "escapeHTML"
        /\ IsPrefix(Among(stages, claimed), claimed)

\* C26, amended: the no-embed unwrap runs first, on the raw text; escaping
\* is second and every other replacement runs after it, on text in which no
\* raw "<" or "&" and no unescaped bracketed form is left; the formatting
\* replacements run in the order escaped backtick, code block, inline code,
\* literal escapes, bold, underline, italic, strikethrough.
C26_UnwrapThenEscapeThenFormat ==
    LET order == << "formatUrlNoEmbed", "escapeHTML" >> \o FormattingStages
    IN  /\ IsPrefix(Among(stages, order), order)
        /\ \A i \in DOMAIN stages :
              stages[i] \notin {"formatUrlNoEmbed", "escapeHTML"} =>
                  \E j \in 1..(i - 1) : stages[j] = "escapeHTML"
        /\ (\E j \in DOMAIN stages : stages[j] = "escapeHTML") =>
              \A i \in DOMAIN processed :
                  /\ ~IsChar(processed[i], "<")
                  /\ ~IsChar(processed[i], "&")
                  /\ processed[i].k \notin {"noembed", "mention_user", "mention_channel"}

\* A text with a "<" and an italic run has gone through every replacement:
\* the "<" is an entity and the run is wrapped.
C26_Witness ==
    /\ Len(stages) > 0
    /\ stages[Len(stages)] = "return"
    /\ settings.enableFormatting
    /\ \E i \in DOMAIN contents : IsChar(contents[i], "<")
    /\ \E i \in DOMAIN contents : contents[i].k = "noembed"
    /\ \E i \in DOMAIN processed : processed[i] = Tok("entity", "&lt;")
    /\ \E i \in DOMAIN processed : processed[i] = Tok("link", "U")

\* the number of tokens of text whose kind is among kinds
CountKinds(text, kinds) == Len(SelectSeq(text, LAMBDA token : token.k \in kinds))

\* C33: with formatting disabled no formatting replacement is applied and
\* the asterisks stay as they are; with either setting every URL is
\* linked and every channel mention, user mention and custom emoji is
\* substituted; an animated emoji gets the animated extension exactly when
\* the animated-emoji setting is enabled, and a static emoji never gets it.
C33_FormattingToggleGatesOnlyFormatting ==
    /\ ~settings.enableFormatting =>
          /\ \A i \in DOMAIN stages : \A j \in DOMAIN FormattingStages :
                stages[i] # FormattingStages[j]
          /\ CountKinds(processed, {"html"}) = (IF Among(stages, << "return" >>) # << >> THEN 2 ELSE 0)
          /\ stages # << >> =>
                CountKinds(SelectSeq(processed, LAMBDA token : token.v = "*"), {"char"})
                    = CountKinds(SelectSeq(contents, LAMBDA token : token.v = "*"), {"char"})
    /\ Among(stages, << "return" >>) # << >> =>
          /\ Among(stages, << "formatUrl", "mentionChannel", "mentionUser",
                              "customEmojiStatic", "customEmojiAnimated" >>)
                = << "formatUrl", "mentionChannel", "mentionUser",
                     "customEmojiStatic", "customEmojiAnimated" >>
          /\ CountKinds(processed, {"link"}) = CountKinds(contents, {"url", "noembed"})
          /\ CountKinds(processed, {"span_channel"}) = CountKinds(contents, {"mention_channel"})
          /\ CountKinds(processed, {"span_user"}) = CountKinds(contents, {"mention_user"})
          /\ CountKinds(processed, {"img"})
                = CountKinds(contents, {"emoji_static", "emoji_animated"})
          /\ \A i \in DOMAIN processed :
                processed[i].k = "img" =>
                    /\ processed[i].w \in {"gif", "webp"}
                    /\ processed[i].w = "gif" <=>
                          (processed[i].v = "A" /\ settings.enableAnimatedEmoji)

\* With formatting and animated emoji both disabled, a text of an
\* asterisk, an animated emoji and a URL has been processed.
C33_Witness ==
    /\ ~settings.enableFormatting
    /\ ~settings.enableAnimatedEmoji
    /\ contents = << Tok("char", "*"), Tok("emoji_animated", "A"), Tok("url", "U") >>
    /\ processed = << Tok("html", "p"), Tok("char", "*"), getEmoji("A", "webp"),
                      Tok("link", "U"), Tok("html", "/p") >>

-----------------------------------------------------------------------------
(***************************************************************************)
(* state.mjs getMessageList (the object it builds for one message) and     *)
(* discord.mjs getMessageHTML.  The viewer holds archive 1.  A field that  *)
(* may be missing from an object is a sequence: empty when the object has  *)
(* no such key, and its value otherwise.  User and channel ids are written *)
(* as strings here; IdString gives the string of an id of the archive.     *)
(***************************************************************************)
IdString(digits) ==
    CASE digits = Digits(100) -> "100"
      [] digits = Digits(101) -> "101"
      [] OTHER                -> "0"

\* getUser: loadedFileMeta.users[id] || { "name": "&lt;unknown&gt;" }
getUser(id) ==
    IF id \in RenderUsers
    THEN [name |-> UserName(id),
          displayName |-> IF UserDisplayName(id) # "" THEN << UserDisplayName(id) >> ELSE << >>]
    ELSE [name |-> "&lt;unknown&gt;", displayName |-> << >>]

\* user.displayName if the user has one, user.name otherwise
DisplayNameOrName(user) == IF user.displayName # << >> THEN user.displayName[1] ELSE user.name

\* escapeHTML of a name: "&" is the only character of a name here that it changes
EscapeName(name) == IF name = "&lt;unknown&gt;" THEN "&amp;lt;unknown&amp;gt;" ELSE name

\* the string of the archive as the text processMessageContents is given
TextOf(string) == [i \in 1..Len(string) |-> Tok("char", string[i])]

\* one piece of the returned HTML: the template that wrote it and the
\* values it was applied to
Html(template, url, src, width, height, text) ==
    [template |-> template, url |-> url, src |-> src, width |-> width, height |-> height,
     text |-> text]

\* the element getMessageList's map returns for message key
ListedMessage(key, message) ==
    LET replyMessage == IF message.r # << >> THEN getMessageById(message.r[1]) ELSE Undef
        replyUser == IF replyMessage.k = "obj" THEN getUser(IdString(replyMessage.v["u"]))
                     ELSE Null
    IN  [user |-> getUser(message.u),
         avatar |-> Null,
         jump |-> key,
         contents |-> message.m,
         embeds |-> IF message.e # << >>
                    THEN << [i \in 1..Len(message.e[1]) |-> message.e[1][i].json] >>
                    ELSE << >>,
         attachments |-> message.a,
         reply |-> IF message.r = << >> THEN Undef
                   ELSE IF replyMessage.k = "obj"
                        THEN Obj([id |-> message.r[1],
                                  user |-> replyUser,
                                  contents |-> IF Has(replyMessage.v, "m")
                                               THEN TextOf(replyMessage.v["m"]) ELSE << >>])
                        ELSE Null]

\* getImageEmbed: the empty string with previews disabled
getImageEmbed(url, image, enableImagePreviews) ==
    IF ~enableImagePreviews THEN << >>
    ELSE IF image.width # 0 /\ image.height # 0
    THEN << Html("templateEmbedImageWithSize", url, image.url, image.width, image.height, "") >>
    ELSE << Html("templateEmbedImage", url, image.url, 0, 0, "") >>

\* the callback of value.map for "embeds"
EmbedHTML(embed, enableImagePreviews) ==
    IF embed.url = << >> \/ embed.url = << "" >>
    THEN << Html("templateEmbedUnsupported", "", "", 0, 0, "") >>
    ELSE IF embed.image # << >> /\ embed.image[1].url # ""
    THEN getImageEmbed(embed.url[1], embed.image[1], enableImagePreviews)
    ELSE IF embed.thumbnail # << >> /\ embed.thumbnail[1].url # ""
    THEN getImageEmbed(embed.url[1], embed.thumbnail[1], enableImagePreviews)
    ELSE IF embed.title # << >> /\ embed.description # << >>
    THEN << Html("templateEmbedRich", embed.url[1], "", 0, 0, embed.title[1]) >>
    ELSE IF embed.title # << >>
    THEN << Html("templateEmbedRichNoDescription", embed.url[1], "", 0, 0, embed.title[1]) >>
    ELSE << Html("templateEmbedUrl", embed.url[1], "", 0, 0, embed.url[1]) >>

\* the attachment callback without the test of the preview setting
AttachmentHTML_NoGate(attachment, enableImagePreviews) ==
    IF ~isImageAttachment(attachment)
    THEN Html("templateAttachmentDownload", attachment.url, "", 0, 0, attachment.name)
    ELSE IF attachment.width # << >> /\ attachment.height # << >>
    THEN Html("templateEmbedImageWithSize", attachment.url, attachment.url,
              attachment.width[1], attachment.height[1], "")
    ELSE Html("templateEmbedImage", attachment.url, attachment.url, 0, 0, "")

\* the callback of value.map for "attachments"
AttachmentHTML(attachment, enableImagePreviews) ==
    IF ~isImageAttachment(attachment) \/ ~enableImagePreviews
    THEN Html("templateAttachmentDownload", attachment.url, "", 0, 0, attachment.name)
    ELSE IF attachment.width # << >> /\ attachment.height # << >>
    THEN Html("templateEmbedImageWithSize", attachment.url, attachment.url,
              attachment.width[1], attachment.height[1], "")
    ELSE Html("templateEmbedImage", attachment.url, attachment.url, 0, 0, "")

RECURSIVE Join(_)
Join(pieces) == IF pieces = << >> THEN << >> ELSE Head(pieces) \o Join(Tail(pieces))

\* the reply processor answering the placeholder for a missing reference too
ReplyHTML_PlaceholderWhenAbsent(value, enableFormatting) ==
    IF value.k \in {"undef", "null"}
    THEN [kind |-> "reply-missing", jump |-> << >>, title |-> "", user |-> "", contents |-> << >>]
    ELSE [kind |-> "reply", jump |-> value.v.id, title |-> value.v.user.name,
          user |-> DisplayNameOrName(value.v.user),
          contents |-> IF value.v.contents # << >>
                       THEN processMessageContents(value.v.contents, enableFormatting)
                       ELSE << >>]

\* the processor's answer for "reply"
ReplyHTML(value, enableFormatting) ==
    IF value.k = "undef"
    THEN [kind |-> "", jump |-> << >>, title |-> "", user |-> "", contents |-> << >>]
    ELSE IF value.k = "null"
    THEN [kind |-> "reply-missing", jump |-> << >>, title |-> "", user |-> "", contents |-> << >>]
    ELSE [kind |-> "reply", jump |-> value.v.id, title |-> value.v.user.name,
          user |-> DisplayNameOrName(value.v.user),
          contents |-> IF value.v.contents # << >>
                       THEN processMessageContents(value.v.contents, enableFormatting)
                       ELSE << >>]

\* getMessageHTML(message): what each placeholder of the template is
\* replaced with.  The message has no edit time, reaction or avatar.
MessageHTML(message) ==
    [template |-> IF settings.enableUserAvatars THEN "templateMessageWithAvatar"
                  ELSE "templateMessageNoAvatar",
     reply |-> ReplyHTML(message.reply, settings.enableFormatting),
     avatar |-> "",
     title |-> EscapeName(message.user.name),
     username |-> DisplayNameOrName(message.user),
     edit |-> "",
     jump |-> IF hasActiveFilter THEN << message.jump >> ELSE << >>,
     contents |-> IF message.contents # << >> /\ Len(message.contents[1]) > 0
                  THEN processMessageContents(message.contents[1], settings.enableFormatting)
                  ELSE << >>,
     embeds |-> IF message.embeds = << >> THEN << >>
                ELSE Join([i \in 1..Len(message.embeds[1]) |->
                              EmbedHTML(message.embeds[1][i], settings.enableImagePreviews)]),
     attachments |-> IF message.attachments = << >> THEN << >>
                     ELSE [i \in 1..Len(message.attachments[1]) |->
                              AttachmentHTML(message.attachments[1][i],
                                             settings.enableImagePreviews)],
     reactions |-> ""]

\* The messages that are rendered.  Users 100 and 101 and channel 1 are in
\* the metadata; users 8 and 9 and channels 6 and 7 are not.  Messages 9
\* and 12 are in the archive, message 42 is not.
SenderInputs == {"100", "8", "9"}

MentionInputs ==
    { << >>,
      << << Tok("mention_user", "100"), Tok("mention_channel", "1") >> >>,
      << << Tok("mention_user", "8"), Tok("mention_channel", "7") >> >>,
      << << Tok("mention_user", "9"), Tok("mention_channel", "6") >> >> }

ImageInputs ==
    { [url |-> "", width |-> 0, height |-> 0], [url |-> "I", width |-> 4, height |-> 3] }

EmbedInputs ==
    [url : { << >>, << "U" >> },
     image : { << >> } \cup { << image >> : image \in ImageInputs },
     thumbnail : { << >>, << [url |-> "T", width |-> 0, height |-> 0] >> },
     title : { << >>, << "T" >> },
     description : { << >>, << "D" >> }]

AttachmentInputs ==
    [name : { "file" },
     url : { [parses |-> TRUE, ext |-> ".PNG"], [parses |-> TRUE, ext |-> ".bin"],
             [parses |-> FALSE, ext |-> ".png"] },
     width : { << >>, << 4 >> },
     height : { << >>, << 3 >> }]

ReplyInputs == { << >>, << Digits(9) >>, << Digits(12) >>, << Digits(42) >> }

\* a line of the exported archive: each embed is the JSON text of its row
MessageInputs ==
    [u : SenderInputs,
     m : MentionInputs,
     e : { << >> } \cup { << << [raw |-> TRUE, json |-> embed] >> >> : embed \in EmbedInputs },
     a : { << >> } \cup { << << attachment >> >> : attachment \in AttachmentInputs },
     r : ReplyInputs]

\* the viewer after uploadFile of archive 1
RenderInit ==
    /\ loadedFileMeta = Obj(1)
    /\ loadedFileData = Obj(1)
    /\ loadedMessages = Null
    /\ filterFunction = Undef
    /\ selectedChannel = Null
    /\ currentPage = Num(1)
    /\ messagesPerPage = Undef
    /\ hasActiveFilter = FALSE
    /\ ret = Ret("uploadFile", Undef, "none")
    /\ refreshes = << "users", "channels", "messages" >>
    /\ jump = << >>
    /\ load_accepted = TRUE
    /\ ExportIdle
    /\ HierarchyIdle
    /\ SorterIdle
    /\ EnrichIdle
    /\ SiblingsIdle
    /\ PageIdle
    /\ \E previews \in BOOLEAN :
          settings = [enableImagePreviews |-> previews, enableFormatting |-> TRUE,
                      enableUserAvatars |-> TRUE, enableAnimatedEmoji |-> TRUE]
    /\ contents = << >>
    /\ processed = << >>
    /\ stages = << >>
    /\ \E message \in MessageInputs :
          render_message = [key |-> Digits(5), message |-> message, listed |-> << >>]
    /\ rendered = << >>

\* getMessageList's map callback on the message
ListMessage ==
    /\ render_message.listed = << >>
    /\ render_message' = [render_message EXCEPT
                            !.listed = << ListedMessage(render_message.key,
                                                        render_message.message) >>]
    /\ UNCHANGED <<settings, contents, processed, stages, rendered>>

\* getMessageHTML on the listed message
getMessageHTML ==
    /\ render_message.listed # << >>
    /\ rendered = << >>
    /\ rendered' = << MessageHTML(render_message.listed[1]) >>
    /\ UNCHANGED <<settings, contents, processed, stages, render_message>>

RenderNext == ListMessage \/ getMessageHTML

SpecRender ==
    RenderInit
    /\ [][RenderNext /\ UNCHANGED <<export_vars, viewer_vars, hierarchy_vars, sorter_vars,
                                    enrich_vars, sibling_vars, page_vars>>]_vars

\* the text each reference of the rendered message to an id that is not in
\* the metadata was resolved to: the sender's name and the mentions' names
UnknownReferenceTexts ==
    LET message == render_message.message
        html == rendered[1]
        mentions == IF message.m = << >> THEN << >> ELSE message.m[1]
    IN  (IF message.u \notin RenderUsers THEN { html.username } ELSE {})
        \cup { html.contents[i + 1].v : i \in { j \in DOMAIN mentions :
                    \/ mentions[j].k = "mention_user" /\ mentions[j].v \notin RenderUsers
                    \/ mentions[j].k = "mention_channel" /\ mentions[j].v \notin RenderChannels } }

\* C27 as stated: every reference of a rendered message to a user or
\* channel id that is not in the metadata is shown as one and the same
\* placeholder text.
C27_OnePlaceholderAsClaimed ==
    rendered # << >> => Cardinality(UnknownReferenceTexts) <= 1

\* C27, amended: with the metadata loaded the lookups do not throw; a
\* sender that is not in the metadata is shown as the one fixed name
\* "<unknown>", and a mention of a user or channel that is not in the
\* metadata is shown as the mentioned id itself.
C27_UnknownSenderFixedMentionsById ==
    rendered # << >> =>
        LET message == render_message.message
            html == rendered[1]
            mentions == IF message.m = << >> THEN << >> ELSE message.m[1]
        IN  /\ ~PropertyReadThrows(loadedFileMeta)
            /\ message.u \notin RenderUsers =>
                  html.username = "&lt;unknown&gt;" /\ html.title = "&amp;lt;unknown&amp;gt;"
            /\ Len(html.contents) = (IF mentions = << >> THEN 0 ELSE Len(mentions) + 2)
            /\ \A i \in DOMAIN mentions :
                  /\ (mentions[i].k = "mention_user" /\ mentions[i].v \notin RenderUsers) =>
                        html.contents[i + 1] =
                            [k |-> "span_user", v |-> mentions[i].v, w |-> mentions[i].v]
                  /\ (mentions[i].k = "mention_channel" /\ mentions[i].v \notin RenderChannels) =>
                        html.contents[i + 1] =
                            [k |-> "span_channel", v |-> mentions[i].v, w |-> ""]

\* A message of the unknown user 8 that mentions the unknown user 9 and the
\* unknown channel 6 has been rendered.
C27_Witness ==
    /\ rendered # << >>
    /\ render_message.message.u = "8"
    /\ render_message.message.m = << << Tok("mention_user", "9"), Tok("mention_channel", "6") >> >>
    /\ rendered[1].username = "&lt;unknown&gt;"
    /\ rendered[1].contents[2].v = "9"
    /\ rendered[1].contents[3].v = "6"

\* C28: the embed of a rendered message is shown by the first case that
\* applies: no url, the unsupported placeholder; an image or thumbnail with
\* a url, an image thumbnail; a title and a description, the rich card; a
\* title, the rich card without description; otherwise the bare url.  With
\* previews disabled the image case still shows a link and not nothing.
C28_EmbedCasesWithPreviewGate ==
    (rendered # << >> /\ render_message.message.e # << >>) =>
        LET embed == render_message.message.e[1][1].json
            html == rendered[1].embeds
            image == \/ embed.image # << >> /\ embed.image[1].url # ""
                     \/ embed.thumbnail # << >> /\ embed.thumbnail[1].url # ""
            links == { "templateAttachmentDownload", "templateEmbedUrl", "templateEmbedRich",
                       "templateEmbedRichNoDescription" }
        IN  /\ Len(html) = 1
            /\ html[1].template =
                  (CASE embed.url = << >> -> "templateEmbedUnsupported"
                     [] embed.url # << >> /\ image ->
                           IF html[1].template = "templateEmbedImageWithSize"
                              /\ settings.enableImagePreviews
                           THEN "templateEmbedImageWithSize"
                           ELSE IF settings.enableImagePreviews THEN "templateEmbedImage"
                           ELSE html[1].template
                     [] embed.url # << >> /\ ~image /\ embed.title # << >>
                          /\ embed.description # << >> -> "templateEmbedRich"
                     [] embed.url # << >> /\ ~image /\ embed.title # << >>
                          /\ embed.description = << >> -> "templateEmbedRichNoDescription"
                     [] OTHER -> "templateEmbedUrl")
            /\ (embed.url # << >> /\ image /\ ~settings.enableImagePreviews) =>
                  html[1].template \in links

\* C29: an attachment of a rendered message is an inline thumbnail exactly
\* when its url has an image extension and previews are enabled, with a
\* width and a height exactly when the attachment has both; in every other
\* case it is a download link that carries its name.
C29_AttachmentThumbnailOrDownload ==
    (rendered # << >> /\ render_message.message.a # << >>) =>
        LET attachment == render_message.message.a[1][1]
            html == rendered[1].attachments
            image == /\ attachment.url.parses
                     /\ attachment.url.ext \in {".png", ".PNG", ".gif", ".jpg", ".Jpg", ".jpeg"}
            sized == attachment.width # << >> /\ attachment.height # << >>
        IN  /\ Len(html) = 1
            /\ html[1].template \in {"templateEmbedImage", "templateEmbedImageWithSize"}
                  <=> (image /\ settings.enableImagePreviews)
            /\ html[1].template = "templateEmbedImageWithSize"
                  <=> (image /\ settings.enableImagePreviews /\ sized)
            /\ html[1].template = "templateEmbedImageWithSize" =>
                  html[1].width = attachment.width[1] /\ html[1].height = attachment.height[1]
            /\ ~(image /\ settings.enableImagePreviews) =>
                  html[1].template = "templateAttachmentDownload" /\ html[1].text = attachment.name

\* An image attachment that has a width and a height has been rendered as
\* a thumbnail of that size, previews being enabled.
C29_Witness ==
    /\ rendered # << >>
    /\ render_message.message.a # << >>
    /\ render_message.message.a[1][1].url = [parses |-> TRUE, ext |-> ".PNG"]
    /\ render_message.message.a[1][1].width = << 4 >>
    /\ render_message.message.a[1][1].height = << 3 >>
    /\ settings.enableImagePreviews
    /\ rendered[1].attachments[1].template = "templateEmbedImageWithSize"

\* the channels of the loaded archive that hold message id
ChannelsWith(id) ==
    { i \in DOMAIN DataChannels(loadedFileData.v) :
        \E j \in DOMAIN ChannelKeys(loadedFileData.v, DataChannels(loadedFileData.v)[i]) :
            ChannelKeys(loadedFileData.v, DataChannels(loadedFileData.v)[i])[j] = id }

\* C30: a rendered message without a reply reference shows no reply; one
\* whose reference is a message of no channel shows the "unknown message"
\* placeholder; one whose reference is found shows the jump to the
\* referenced id and the name of the referenced message's author.
C30_ReplyThreeCases ==
    rendered # << >> =>
        LET r == render_message.message.r
            reply == rendered[1].reply
        IN  /\ r = << >> => reply.kind = ""
            /\ (r # << >> /\ ChannelsWith(r[1]) = {}) => reply.kind = "reply-missing"
            /\ (r # << >> /\ ChannelsWith(r[1]) # {}) =>
                  \E i \in ChannelsWith(r[1]) :
                      LET target == MessageOf(loadedFileData.v,
                                              DataChannels(loadedFileData.v)[i], r[1])
                          author == IdString(target["u"])
                      IN  /\ reply.kind = "reply"
                          /\ reply.jump = r[1]
                          /\ reply.title = UserName(author)
                          /\ reply.user = (IF UserDisplayName(author) # ""
                                           THEN UserDisplayName(author) ELSE UserName(author))

\* A reply to message 12, which is in the second channel of the archive,
\* has been rendered with its jump and its author.
C30_Witness ==
    /\ rendered # << >>
    /\ render_message.message.r = << Digits(12) >>
    /\ rendered[1].reply.kind = "reply"
    /\ rendered[1].reply.jump = Digits(12)
    /\ rendered[1].reply.user = "Al"

-----------------------------------------------------------------------------
(***************************************************************************)
(* The page main() writes and bootstrap.mjs loadData reads back.  A text   *)
(* is a list of pieces: a piece is one character, or one of the substrings *)
(* "</script>" and "//__STYLE__".  A line of the x-ndjson stream is the    *)
(* record [id, c, m, whole]: m is the string literal of "m" between its    *)
(* quotes, and whole says that the line is a complete JSON object (a line  *)
(* that was cut, or broken in two, is not).                                *)
(***************************************************************************)
PageChannels == {"1", "2"}

PageTexts ==
    { << "h" >>, << "h", "\n", "i" >>, << "\"" >>, << "</script>" >>, << "//__STYLE__" >> }

\* the messages table: message_id is its key, so row i has id i
PageRowInputs ==
    UNION { [1..n -> [channel_id : PageChannels, text : PageTexts]] : n \in 0..MaxMsgs }

\* json.dumps of a str: the quote, the backslash and the control characters
\* are escaped, nothing else is (ensure_ascii=False)
json_dumps_str(string) ==
    [i \in 1..Len(string) |->
        CASE string[i] = "\n" -> "\\n"
          [] string[i] = "\"" -> "\\\""
          [] OTHER            -> string[i]]

\* JSON.parse of a string literal
JSON_parse_str(literal) ==
    [i \in 1..Len(literal) |->
        CASE literal[i] = "\\n"  -> "\n"
          [] literal[i] = "\\\"" -> "\""
          [] OTHER               -> literal[i]]

\* process_message: json.dumps(message_obj) for row i (the other keys of
\* the record do not depend on the text and are left out)
DumpedLine(rows, i) ==
    [id |-> i, c |-> rows[i].channel_id, m |-> json_dumps_str(rows[i].text), whole |-> TRUE]

\* the viewer's stylesheet: it starts with a line break
Style == << "\n", "css" >>

RECURSIVE ReplaceStyle(_)
\* str.replace("//__STYLE__", style) on the literal of a line
ReplaceStyle(literal) ==
    IF literal = << >> THEN << >>
    ELSE (IF Head(literal) = "//__STYLE__" THEN Style ELSE << Head(literal) >>)
         \o ReplaceStyle(Tail(literal))

\* html_template.replace("//__MESSAGES__", messages_ndjson)
\*              .replace("//__STYLE__", style): what stands between the
\* tags of the viewer-messages element in the file
WrittenLines(lines) == [i \in 1..Len(lines) |-> [lines[i] EXCEPT !.m = ReplaceStyle(lines[i].m)]]

\* the index of the first piece of literal that is piece, 0 if there is none
RECURSIVE FirstPiece(_, _)
FirstPiece(literal, piece) ==
    IF literal = << >> THEN 0
    ELSE IF Head(literal) = piece THEN 1
    ELSE LET rest == FirstPiece(Tail(literal), piece)
         IN  IF rest = 0 THEN 0 ELSE rest + 1

\* messagesTag.textContent: the HTML parser ends a script element at the
\* first "</script>" of the file after its start tag
RECURSIVE TextContent(_)
TextContent(lines) ==
    IF lines = << >> THEN << >>
    ELSE LET cut == FirstPiece(Head(lines).m, "</script>")
         IN  IF cut = 0 THEN << Head(lines) >> \o TextContent(Tail(lines))
             ELSE << [Head(lines) EXCEPT !.m = SubSeq(Head(lines).m, 1, cut - 1),
                                         !.whole = FALSE] >>

\* .trim().split('\n') on one line of the file: a line break inside the
\* line breaks it in two
RECURSIVE SplitLine(_)
SplitLine(line) ==
    LET break == FirstPiece(line.m, "\n")
    IN  IF break = 0 THEN << line >>
        ELSE << [line EXCEPT !.m = SubSeq(line.m, 1, break - 1), !.whole = FALSE] >>
             \o SplitLine([id |-> 0, c |-> "", m |-> SubSeq(line.m, break + 1, Len(line.m)),
                           whole |-> FALSE])

RECURSIVE SplitLines(_)
SplitLines(lines) ==
    IF lines = << >> THEN << >> ELSE SplitLine(Head(lines)) \o SplitLines(Tail(lines))

\* messages[channel][message.id] = message
StoreMessage(stored, line) ==
    SelectSeq(stored, LAMBDA entry : ~(entry.c = line.c /\ entry.id = line.id))
    \o << [c |-> line.c, id |-> line.id, m |-> JSON_parse_str(line.m)] >>

\* Object.keys(messages[channel]).length, getChannelList's msgcount with no
\* filter set
MsgCount(stored, channel) == Len(SelectSeq(stored, LAMBDA entry : entry.c = channel))

PageInit ==
    /\ ViewerIdle
    /\ ExportIdle
    /\ HierarchyIdle
    /\ SorterIdle
    /\ EnrichIdle
    /\ SiblingsIdle
    /\ RenderIdle
    /\ page_rows \in PageRowInputs
    /\ messages_ndjson = << >>
    /\ final_html = << >>
    /\ rawNdjson = << >>
    /\ messages = << >>
    /\ load_pc = "generate"

\* main: "\n".join(generate_messages_ndjson(...))
generate_messages_ndjson ==
    /\ load_pc = "generate"
    /\ messages_ndjson' = << [i \in 1..Len(page_rows) |-> DumpedLine(page_rows, i)] >>
    /\ load_pc' = "write"
    /\ UNCHANGED <<page_rows, final_html, rawNdjson, messages>>

\* main: the replacements on html_template and file.write(final_html)
WritePage ==
    /\ load_pc = "write"
    /\ final_html' = << WrittenLines(messages_ndjson[1]) >>
    /\ load_pc' = "open"
    /\ UNCHANGED <<page_rows, messages_ndjson, rawNdjson, messages>>

\* loadData: messagesTag.textContent.trim().split('\n')
loadData_split ==
    /\ load_pc = "open"
    /\ rawNdjson' = << SplitLines(TextContent(final_html[1])) >>
    /\ load_pc' = "lines"
    /\ UNCHANGED <<page_rows, messages_ndjson, final_html, messages>>

\* loadData: one turn of the loop over the lines; JSON.parse throws on a
\* line that is not whole, and the catch block gives the load up
loadData_line ==
    /\ load_pc = "lines"
    /\ rawNdjson[1] # << >>
    /\ IF Head(rawNdjson[1]).whole
       THEN /\ messages' = StoreMessage(messages, Head(rawNdjson[1]))
            /\ rawNdjson' = << Tail(rawNdjson[1]) >>
            /\ UNCHANGED load_pc
       ELSE /\ load_pc' = "failed"
            /\ UNCHANGED <<rawNdjson, messages>>
    /\ UNCHANGED <<page_rows, messages_ndjson, final_html>>

\* loadData: state.uploadFile(metadataJson, messages)
loadData_upload ==
    /\ load_pc = "lines"
    /\ rawNdjson[1] = << >>
    /\ load_pc' = "uploaded"
    /\ UNCHANGED <<page_rows, messages_ndjson, final_html, rawNdjson, messages>>

PageNext ==
    generate_messages_ndjson \/ WritePage \/ loadData_split \/ loadData_line \/ loadData_upload

SpecPage ==
    PageInit
    /\ [][PageNext /\ UNCHANGED <<export_vars, viewer_vars, hierarchy_vars, sorter_vars,
                                  enrich_vars, sibling_vars, render_vars>>]_vars

\* C31: once the page has been loaded, the store holds, for every channel,
\* as many messages as there are exported rows of that channel, and every
\* exported row is found under its channel and id.
C31_RoundTripCounts ==
    load_pc \in {"uploaded", "failed"} =>
        /\ load_pc = "uploaded"
        /\ \A channel \in PageChannels :
              MsgCount(messages, channel) =
                  Cardinality({ i \in DOMAIN page_rows : page_rows[i].channel_id = channel })
        /\ \A i \in DOMAIN page_rows :
              \E j \in DOMAIN messages :
                  messages[j].c = page_rows[i].channel_id /\ messages[j].id = i

====
